---- MODULE Spec2Model ----
(***************************************************************************)
(* Model of the Sync Player signaling server (src/server/server.js).       *)
(*                                                                         *)
(* The server is a single-threaded node process: every handler runs to     *)
(* completion, so each handler is one atomic action.  Strings that the     *)
(* code inspects character by character (room IDs) are sequences of        *)
(* one-character strings; an absent or empty (falsy) field is the empty    *)
(* sequence / empty string.  Messages are modelled as the parsed JSON      *)
(* values the handlers read and write.                                     *)
(***************************************************************************)
EXTENDS Integers, Sequences, FiniteSets, TLC

\* Number of WebSocket connections the server accepts during one run.
NumSessions == 3

\* The WebSocket objects (keys of the `clients` map, elements of room Sets).
Sessions == 1..NumSessions

\* excludeClient = null in broadcastToRoom
NoClient == 0

\* clientInfo.roomId = null; also a missing / empty roomId field of a message
NoRoom == <<>>

\* a missing / empty url field; hostUrl = null in ROOM_JOINED
NoUrl == <<>>

\* a missing event / state field (option type: <<>> or <<value>>)
Absent == <<>>

\* userId / username null, undefined or "" (all falsy in the code)
NoName == ""

\* ws.readyState, plus NEW for a connection that has not been accepted yet
ReadyStates == {"NEW", "OPEN", "CLOSED"}

----------------------------------------------------------------------------
\* Inputs

\* /^[A-Za-z0-9]{1,20}$/ : the character class
AlnumChars ==
  {"A","B","C","D","E","F","G","H","I","J","K","L","M","N","O","P","Q","R","S","T","U","V","W","X","Y","Z",
   "a","b","c","d","e","f","g","h","i","j","k","l","m","n","o","p","q","r","s","t","u","v","w","x","y","z",
   "0","1","2","3","4","5","6","7","8","9"}

\* /^[A-Za-z0-9]{1,20}$/ : the upper length
RoomIdMaxLen == 20

LongRoomId == [i \in 1..(RoomIdMaxLen + 1) |-> "A"]

\* roomId fields clients send: two valid IDs that differ only in case, an ID
\* with characters outside the class, an ID that is too long, and none.
RoomIdInputs == { <<"R","1">>, <<"r","1">>, <<".","/">>, LongRoomId, NoRoom }

\* roomId fields of the messages whose roomId the server does not validate
RelayRoomIdInputs == { <<"R","1">>, <<"r","1">>, NoRoom }

\* url fields clients send, as <<protocol, rest>> when `new URL(url)` parses
\* them and as a one-element sequence when it throws.
UrlInputs == { <<"https:", "//a.example/v1">>, <<"http:", "//a.example/v2">>,
               <<"javascript:", "alert(1)">>, <<"not a url">>, NoUrl }

\* event fields of VIDEO_EVENT
EventInputs == { <<[eventType |-> "play", currentTime |-> 10]>>,
                 <<[eventType |-> "pause", currentTime |-> 20]>>, Absent }

\* state fields of SYNC_VIDEO_STATE
StateInputs == { <<[currentTime |-> 10, paused |-> FALSE, playbackRate |-> 1]>>, Absent }

\* userId and username fields of JOIN_ROOM
UserIdInputs == { NoName }
UsernameInputs == { NoName }

\* values generateClientId() may return
GeneratedIds == { "g1" }

----------------------------------------------------------------------------
VARIABLES
  rooms,      \* Map<roomId, Set<WebSocket>>: room id -> members, in insertion order
  clients,    \* Map<WebSocket, {roomId, userId, username, isHost}>
  roomUrls,   \* Map<roomId, string>
  readyState, \* ws.readyState of every connection
  lastUrl,    \* history: room id -> url of the last update the server accepted
              \* for the room since it was created (recorded under SpecUrl only)
  tabs,       \* content.js: the content script and the video element of every tab
  inbox,      \* content.js: the VIDEO_EVENT messages on their way to every tab,
              \* each with the tab that sent it
  adSeen,     \* history: for every tab, the tabs whose ad-start announcement has
              \* been delivered to it
  bg,         \* background.js: the background script of one browser
  wire        \* the JOIN_ROOM messages on their way from the background script to
              \* the server and the ROOM_JOINED messages on their way back

serverVars == <<rooms, clients, roomUrls, readyState, lastUrl>>

contentVars == <<tabs, inbox, adSeen>>

extensionVars == <<tabs, inbox, adSeen, bg, wire>>

vars == <<rooms, clients, roomUrls, readyState, lastUrl, tabs, inbox, adSeen, bg, wire>>

----------------------------------------------------------------------------
\* Helpers on maps and insertion-ordered sets

MapDelete(m, k) == [x \in (DOMAIN m) \ {k} |-> m[x]]

MapSet(m, k, v) == [x \in (DOMAIN m) \cup {k} |-> IF x = k THEN v ELSE m[x]]

SeqRange(q) == { q[i] : i \in 1..Len(q) }

\* roomClients.delete(ws) that removes nothing
SetDelete_KeepsElement(q, e) == q

SetDelete(q, e) == SelectSeq(q, LAMBDA x : x # e)

SetAdd(q, e) == IF e \in SeqRange(q) THEN q ELSE Append(q, e)

----------------------------------------------------------------------------
\* The functions of server.js.  A handler takes the server state
\* st = [rooms, clients, roomUrls, out] and returns the state after it ran;
\* out collects the messages given to ws.send.

ServerState == [rooms |-> rooms, clients |-> clients, roomUrls |-> roomUrls, out |-> <<>>]

sendMessage(ws, message) ==
  IF readyState[ws] = "OPEN" THEN << [to |-> ws, msg |-> message] >> ELSE <<>>

\* a broadcast whose loop ends at the first member that is not OPEN
broadcastToRoom_StopsAtClosed(rms, roomId, message, excludeClient) ==
  IF roomId \notin DOMAIN rms THEN <<>>
  ELSE LET q      == rms[roomId]
           closed == { i \in 1..Len(q) : readyState[q[i]] # "OPEN" }
           n      == IF closed = {} THEN Len(q)
                     ELSE (CHOOSE i \in closed : \A j \in closed : i <= j) - 1
           open   == SelectSeq(SubSeq(q, 1, n), LAMBDA client : client # excludeClient)
       IN [i \in 1..Len(open) |-> [to |-> open[i], msg |-> message]]

broadcastToRoom(rms, roomId, message, excludeClient) ==
  IF roomId \notin DOMAIN rms THEN <<>>
  ELSE LET open == SelectSeq(rms[roomId],
                 LAMBDA client : client # excludeClient /\ readyState[client] = "OPEN")
       IN [i \in 1..Len(open) |-> [to |-> open[i], msg |-> message]]

getRoomUsers(rms, cls, roomId) ==
  IF roomId \notin DOMAIN rms THEN <<>>
  ELSE LET known == SelectSeq(rms[roomId], LAMBDA client : client \in DOMAIN cls)
       IN [i \in 1..Len(known) |->
             [id   |-> IF cls[known[i]].userId # NoName THEN cls[known[i]].userId ELSE "unknown",
              name |-> IF cls[known[i]].username # NoName THEN cls[known[i]].username
                       ELSE "Anonymous"]]

\* the pattern without its upper length: /^[A-Za-z0-9]+$/
isValidRoomId_AnyLength(roomId) ==
  /\ roomId # NoRoom
  /\ \A i \in 1..Len(roomId) : roomId[i] \in AlnumChars

isValidRoomId(roomId) ==
  /\ roomId # NoRoom
  /\ Len(roomId) \in 1..RoomIdMaxLen
  /\ \A i \in 1..Len(roomId) : roomId[i] \in AlnumChars

\* a validation that allows the https: protocol only
isValidUrl_HttpsOnly(url) ==
  /\ url # NoUrl
  /\ Len(url) = 2
  /\ url[1] = "https:"

isValidUrl(url) ==
  /\ url # NoUrl
  /\ Len(url) = 2
  /\ url[1] \in {"http:", "https:"}

\* a leave that clears clientInfo.roomId only
handleLeaveRoom_KeepsHostFlag(st, ws, roomId, notifyClient) ==
  IF roomId \notin DOMAIN st.rooms THEN st
  ELSE
    LET roomClients == SetDelete(st.rooms[roomId], ws)
        empty       == Len(roomClients) = 0
        rooms1      == IF empty THEN MapDelete(st.rooms, roomId)
                       ELSE [st.rooms EXCEPT ![roomId] = roomClients]
        roomUrls1   == IF empty THEN MapDelete(st.roomUrls, roomId) ELSE st.roomUrls
        peerLeft    == IF empty THEN <<>>
                       ELSE broadcastToRoom(rooms1, roomId,
                              [type |-> "PEER_LEFT", peerCount |-> Len(roomClients),
                               users |-> getRoomUsers(rooms1, st.clients, roomId)],
                              NoClient)
        clients1    == IF ws \in DOMAIN st.clients
                       THEN [st.clients EXCEPT ![ws].roomId = NoRoom]
                       ELSE st.clients
        roomLeft    == IF notifyClient
                       THEN sendMessage(ws, [type |-> "ROOM_LEFT", roomId |-> roomId])
                       ELSE <<>>
    IN [rooms |-> rooms1, clients |-> clients1, roomUrls |-> roomUrls1,
        out |-> st.out \o peerLeft \o roomLeft]

handleLeaveRoom(st, ws, roomId, notifyClient) ==
  IF roomId \notin DOMAIN st.rooms THEN st
  ELSE
    LET roomClients == SetDelete(st.rooms[roomId], ws)
        empty       == Len(roomClients) = 0
        rooms1      == IF empty THEN MapDelete(st.rooms, roomId)
                       ELSE [st.rooms EXCEPT ![roomId] = roomClients]
        roomUrls1   == IF empty THEN MapDelete(st.roomUrls, roomId) ELSE st.roomUrls
        peerLeft    == IF empty THEN <<>>
                       ELSE broadcastToRoom(rooms1, roomId,
                              [type |-> "PEER_LEFT", peerCount |-> Len(roomClients),
                               users |-> getRoomUsers(rooms1, st.clients, roomId)],
                              NoClient)
        clients1    == IF ws \in DOMAIN st.clients
                       THEN [st.clients EXCEPT ![ws].roomId = NoRoom, ![ws].isHost = FALSE]
                       ELSE st.clients
        roomLeft    == IF notifyClient
                       THEN sendMessage(ws, [type |-> "ROOM_LEFT", roomId |-> roomId])
                       ELSE <<>>
    IN [rooms |-> rooms1, clients |-> clients1, roomUrls |-> roomUrls1,
        out |-> st.out \o peerLeft \o roomLeft]

\* A join that is not a rejoin makes the client host whatever the room's state.
JoinIsHost_AlwaysHost(isRejoining, clientInfo, roomExists) ==
  IF isRejoining THEN clientInfo.isHost ELSE TRUE

\* handleJoinRoom: "Determine if this client is the host"
JoinIsHost(isRejoining, clientInfo, roomExists) ==
  IF isRejoining THEN clientInfo.isHost ELSE ~roomExists

handleJoinRoom(st, ws, roomId, userId, username, generated) ==
  LET known       == ws \in DOMAIN st.clients
      clientInfo  == st.clients[ws]
      isRejoining == known /\ clientInfo.roomId = roomId
      st1         == IF known /\ clientInfo.roomId # NoRoom /\ clientInfo.roomId # roomId
                     THEN handleLeaveRoom(st, ws, clientInfo.roomId, FALSE)
                     ELSE st
      isHost      == JoinIsHost(isRejoining, clientInfo, roomId \in DOMAIN st1.rooms)
      rooms1      == IF roomId \notin DOMAIN st1.rooms THEN MapSet(st1.rooms, roomId, <<>>)
                     ELSE st1.rooms
      roomClients == SetAdd(rooms1[roomId], ws)
      rooms2      == [rooms1 EXCEPT ![roomId] = roomClients]
      clients2    == MapSet(st1.clients, ws,
                       [roomId   |-> roomId,
                        userId   |-> IF isRejoining /\ clientInfo.userId # NoName
                                     THEN clientInfo.userId
                                     ELSE IF userId # NoName THEN userId ELSE generated,
                        username |-> IF username # NoName THEN username ELSE "Anonymous",
                        isHost   |-> isHost])
      users       == getRoomUsers(rooms2, clients2, roomId)
      hostUrl     == IF roomId \in DOMAIN st1.roomUrls THEN st1.roomUrls[roomId] ELSE NoUrl
      roomJoined  == sendMessage(ws, [type |-> "ROOM_JOINED", roomId |-> roomId,
                                      peerCount |-> Len(roomClients), isHost |-> isHost,
                                      hostUrl |-> hostUrl, users |-> users])
      notify      == IF ~isRejoining
                     THEN broadcastToRoom(rooms2, roomId,
                            [type |-> "PEER_JOINED", peerCount |-> Len(roomClients),
                             users |-> users], ws)
                     ELSE broadcastToRoom(rooms2, roomId,
                            [type |-> "USERS_UPDATE", users |-> users], NoClient)
  IN [rooms |-> rooms2, clients |-> clients2, roomUrls |-> st1.roomUrls,
      out |-> st1.out \o roomJoined \o notify]

\* The relay forgets to exclude the sender.
handleVideoEvent_EchoToSender(st, ws, roomId, event) ==
  [st EXCEPT !.out = @ \o broadcastToRoom(st.rooms, roomId,
                                          [type |-> "VIDEO_EVENT", event |-> event], NoClient)]

handleVideoEvent(st, ws, roomId, event) ==
  [st EXCEPT !.out = @ \o broadcastToRoom(st.rooms, roomId,
                                          [type |-> "VIDEO_EVENT", event |-> event], ws)]

handleSyncVideoState(st, ws, roomId, state) ==
  [st EXCEPT !.out = @ \o broadcastToRoom(st.rooms, roomId,
                                          [type |-> "SYNC_VIDEO_STATE", state |-> state], ws)]

\* The host check is dropped: any known client may update the URL.
MayUpdateHostUrl_AnyClient(st, ws) ==
  ws \in DOMAIN st.clients

\* handleUpdateHostUrl: "Only allow host to update URL"
MayUpdateHostUrl(st, ws) ==
  ws \in DOMAIN st.clients /\ st.clients[ws].isHost

handleUpdateHostUrl(st, ws, roomId, url) ==
  IF MayUpdateHostUrl(st, ws)
  THEN IF ~isValidUrl(url)
       THEN [st EXCEPT !.out = @ \o sendMessage(ws,
              [type |-> "ERROR",
               error |-> "Invalid URL format. Only http and https URLs are allowed."])]
       ELSE [st EXCEPT !.roomUrls = MapSet(st.roomUrls, roomId, url),
                       !.out = @ \o broadcastToRoom(st.rooms, roomId,
                                      [type |-> "HOST_URL_UPDATED", url |-> url], ws)]
  ELSE st

handleDisconnect(st, ws) ==
  LET st1 == IF ws \in DOMAIN st.clients /\ st.clients[ws].roomId # NoRoom
             THEN handleLeaveRoom(st, ws, st.clients[ws].roomId, FALSE)
             ELSE st
  IN [st1 EXCEPT !.clients = MapDelete(st1.clients, ws)]

\* handleMessage, by message type
handleMessage(st, ws, message) ==
  CASE message.type = "JOIN_ROOM" ->
         IF message.roomId # NoRoom
         THEN IF ~isValidRoomId(message.roomId)
              THEN [st EXCEPT !.out = @ \o sendMessage(ws,
                     [type |-> "ERROR",
                      error |-> "Invalid room ID format. Room ID must be 1-20 alphanumeric characters."])]
              ELSE handleJoinRoom(st, ws, message.roomId, message.userId, message.username,
                                  message.generated)
         ELSE [st EXCEPT !.out = @ \o sendMessage(ws,
                [type |-> "ERROR", error |-> "Room ID is required"])]
    [] message.type = "LEAVE_ROOM" ->
         IF message.roomId # NoRoom THEN handleLeaveRoom(st, ws, message.roomId, TRUE) ELSE st
    [] message.type = "VIDEO_EVENT" ->
         IF message.roomId # NoRoom /\ message.event # Absent
         THEN handleVideoEvent(st, ws, message.roomId, message.event[1]) ELSE st
    [] message.type = "SYNC_VIDEO_STATE" ->
         IF message.roomId # NoRoom /\ message.state # Absent
         THEN handleSyncVideoState(st, ws, message.roomId, message.state[1]) ELSE st
    [] message.type = "UPDATE_HOST_URL" ->
         IF message.roomId # NoRoom /\ message.url # NoUrl
         THEN handleUpdateHostUrl(st, ws, message.roomId, message.url) ELSE st
    [] message.type = "INVALID_JSON" ->
         [st EXCEPT !.out = @ \o sendMessage(ws,
           [type |-> "ERROR", error |-> "Invalid message format"])]
    [] OTHER ->
         [st EXCEPT !.out = @ \o sendMessage(ws,
           [type |-> "ERROR", error |-> "Unknown message type"])]

----------------------------------------------------------------------------
\* The messages clients send

Messages ==
  [type : {"JOIN_ROOM"}, roomId : RoomIdInputs, userId : UserIdInputs,
   username : UsernameInputs, generated : GeneratedIds]
  \cup [type : {"LEAVE_ROOM"}, roomId : RelayRoomIdInputs]
  \cup [type : {"VIDEO_EVENT"}, roomId : RelayRoomIdInputs, event : EventInputs]
  \cup [type : {"SYNC_VIDEO_STATE"}, roomId : RelayRoomIdInputs, state : StateInputs]
  \cup [type : {"UPDATE_HOST_URL"}, roomId : RelayRoomIdInputs, url : UrlInputs]
  \cup [type : {"INVALID_JSON", "PING"}]

----------------------------------------------------------------------------
\* content.js: the content script of one tab.
\*
\* A tab is a record
\*   hostname          window.location.hostname as its labels, NoPage before the
\*                     script has loaded
\*   monitored         monitoredVideo # null
\*   adShowing         the page shows one of the ad indicators isYouTubeAdPlaying
\*                     looks for
\*   isWatchingAd, adCheckInterval, overlay (adWaitingOverlay in the document),
\*   isSyncing, lastSyncedTime, seekDebounceTimer (a timeout is pending)
\*   cooldowns         the pending timeouts that will reset isSyncing
\*   video             currentTime (ms), paused, playbackRate of the element
\*   pending           the events the element has queued for its listeners
\* Times are integer milliseconds and timers fire in any order.  Optional fields
\* of events and states are Absent or a one-element sequence.

SEEK_THRESHOLD_SECONDS == 1

NumTabs == 3
Tabs == 1..NumTabs

NoPage == <<>>

\* hostnames of the pages a tab loads
HostnameInputs == { <<"www", "youtube", "com">>, <<"youtu", "be">>, <<"vimeo", "com">> }

\* video.currentTime values a user seeks to and remote messages carry
TimeInputs == { 10000, 10300, 20000 }

\* video.playbackRate values (in hundredths)
RateInputs == { 100, 150 }

\* Date.now() at the sender and its difference to Date.now() at the receiver
SentAt == 50000
LatencyInputs == { 0, 300 }

DomEvents == { "play", "pause", "seeked", "ratechange" }

Abs(x) == IF x < 0 THEN -x ELSE x

Some(x) == << x >>

NewTab ==
  [hostname |-> NoPage, monitored |-> FALSE, adShowing |-> FALSE,
   isWatchingAd |-> FALSE, adCheckInterval |-> FALSE, overlay |-> FALSE,
   isSyncing |-> FALSE, lastSyncedTime |-> 0, seekDebounceTimer |-> FALSE,
   cooldowns |-> 0,
   video |-> [currentTime |-> 0, paused |-> TRUE, playbackRate |-> 100],
   pending |-> {}]

\* HTMLMediaElement: pause() on a playing element queues 'pause'
VideoPause(c) ==
  IF c.video.paused THEN c
  ELSE [c EXCEPT !.video.paused = TRUE, !.pending = @ \cup {"pause"}]

\* HTMLMediaElement: play() on a paused element starts playback and queues
\* 'play', or is rejected (autoplay policy) and changes nothing
VideoPlay(c, allowed) ==
  IF ~c.video.paused \/ ~allowed THEN c
  ELSE [c EXCEPT !.video.paused = FALSE, !.pending = @ \cup {"play"}]

\* HTMLMediaElement: assigning currentTime seeks and queues 'seeked'
VideoSetCurrentTime(c, t) ==
  [c EXCEPT !.video.currentTime = t, !.pending = @ \cup {"seeked"}]

\* HTMLMediaElement: assigning a different playbackRate queues 'ratechange'
VideoSetPlaybackRate(c, r) ==
  IF c.video.playbackRate = r THEN c
  ELSE [c EXCEPT !.video.playbackRate = r, !.pending = @ \cup {"ratechange"}]

isYouTube(hostname) ==
  \/ hostname = <<"youtube", "com">>
  \/ (Len(hostname) > 2 /\ SubSeq(hostname, Len(hostname) - 1, Len(hostname)) = <<"youtube", "com">>)
  \/ hostname = <<"youtu", "be">>
  \/ (Len(hostname) > 2 /\ SubSeq(hostname, Len(hostname) - 1, Len(hostname)) = <<"youtu", "be">>)

isYouTubeAdPlaying(c) == isYouTube(c.hostname) /\ c.adShowing

getVideoState(c, now) ==
  [currentTime |-> c.video.currentTime, paused |-> c.video.paused,
   playbackRate |-> c.video.playbackRate, timestamp |-> now,
   isWatchingAd |-> IF isYouTube(c.hostname) THEN Some(isYouTubeAdPlaying(c)) ELSE Absent]

showAdWaitingOverlay(c) == [c EXCEPT !.overlay = TRUE]

hideAdWaitingOverlay(c) == [c EXCEPT !.overlay = FALSE]

\* a `finally` that schedules no timeout
ScheduleCooldown_Dropped(c) == c

\* the `finally` of applyVideoState and handleRemoteVideoEvent
ScheduleCooldown(c) == [c EXCEPT !.cooldowns = @ + 1]

\* |a - b| > SEEK_THRESHOLD_SECONDS, in milliseconds
OverThreshold(a, b) == Abs(a - b) > SEEK_THRESHOLD_SECONDS * 1000

applyVideoState(c, state, now, playAllowed) ==
  IF ~c.monitored \/ c.isSyncing THEN c
  ELSE
    LET localAdPlaying  == isYouTubeAdPlaying(c)
        remoteAdPlaying == state.isWatchingAd = Some(TRUE)
        gated           == isYouTube(c.hostname)
        latency         == now - state.timestamp
        targetTime      == IF ~state.paused THEN state.currentTime + latency
                           ELSE state.currentTime
        c0 == IF gated THEN hideAdWaitingOverlay(c) ELSE c
        c1 == [c0 EXCEPT !.isSyncing = TRUE]
        c2 == IF OverThreshold(c1.video.currentTime, targetTime)
              THEN [VideoSetCurrentTime(c1, targetTime) EXCEPT !.lastSyncedTime = targetTime]
              ELSE c1
        c3 == VideoSetPlaybackRate(c2, state.playbackRate)
        c4 == IF state.paused /\ ~c3.video.paused THEN VideoPause(c3)
              ELSE IF ~state.paused /\ c3.video.paused THEN VideoPlay(c3, playAllowed)
              ELSE c3
    IN IF gated /\ remoteAdPlaying /\ ~localAdPlaying
       THEN showAdWaitingOverlay(VideoPause(c))
       ELSE IF gated /\ ~remoteAdPlaying /\ localAdPlaying THEN c
       ELSE IF gated /\ localAdPlaying THEN hideAdWaitingOverlay(c)
       ELSE ScheduleCooldown(c4)

\* sendVideoEvent without its `if (isSyncing) return`
sendVideoEvent_Unsuppressed(c, eventType, data, now) ==
  << [eventType    |-> eventType,
      currentTime  |-> data.currentTime,
      playbackRate |-> data.playbackRate,
      paused       |-> data.paused,
      isWatchingAd |-> IF isYouTube(c.hostname) /\ data.isWatchingAd = Absent
                       THEN Some(isYouTubeAdPlaying(c)) ELSE data.isWatchingAd,
      timestamp    |-> now] >>

sendVideoEvent(c, eventType, data, now) ==
  IF c.isSyncing THEN <<>>
  ELSE << [eventType    |-> eventType,
           currentTime  |-> data.currentTime,
           playbackRate |-> data.playbackRate,
           paused       |-> data.paused,
           isWatchingAd |-> IF isYouTube(c.hostname) /\ data.isWatchingAd = Absent
                            THEN Some(isYouTubeAdPlaying(c)) ELSE data.isWatchingAd,
           timestamp    |-> now] >>

NoData == [currentTime |-> Absent, playbackRate |-> Absent, paused |-> Absent,
           isWatchingAd |-> Absent]

\* startYouTubeAdMonitoring: the state is initialised without a broadcast
startYouTubeAdMonitoring(c) ==
  [c EXCEPT !.isWatchingAd = isYouTubeAdPlaying(c), !.adCheckInterval = TRUE]

\* the callback of the setInterval of startYouTubeAdMonitoring
adCheck(c, now) ==
  LET currentAdState == isYouTubeAdPlaying(c)
  IN IF currentAdState = c.isWatchingAd THEN [tab |-> c, out |-> <<>>]
     ELSE [tab |-> [c EXCEPT !.isWatchingAd = currentAdState],
           out |-> IF ~c.monitored THEN <<>>
                   ELSE IF currentAdState
                   THEN sendVideoEvent(c, "pause",
                          [NoData EXCEPT !.currentTime = Some(c.video.currentTime),
                                         !.isWatchingAd = Some(TRUE)], now)
                   ELSE sendVideoEvent(c, IF c.video.paused THEN "pause" ELSE "play",
                          [NoData EXCEPT !.currentTime = Some(c.video.currentTime),
                                         !.playbackRate = Some(c.video.playbackRate),
                                         !.isWatchingAd = Some(FALSE)], now)]

setupVideoListeners(c) ==
  IF c.monitored THEN c
  ELSE LET c1 == [c EXCEPT !.monitored = TRUE]
       IN IF isYouTube(c.hostname) THEN startYouTubeAdMonitoring(c1) ELSE c1

\* initializeSync when findVideoElement() finds a video
initializeSync(c) == setupVideoListeners(c)

handlePlay(c, now) ==
  IF c.isSyncing \/ ~c.monitored THEN <<>>
  ELSE sendVideoEvent(c, "play",
         [NoData EXCEPT !.currentTime = Some(c.video.currentTime),
                        !.playbackRate = Some(c.video.playbackRate)], now)

handlePause(c, now) ==
  IF c.isSyncing \/ ~c.monitored THEN <<>>
  ELSE sendVideoEvent(c, "pause",
         [NoData EXCEPT !.currentTime = Some(c.video.currentTime)], now)

\* handleSeeked: (re)starts the debounce timer
handleSeeked(c) ==
  IF c.isSyncing \/ ~c.monitored THEN c
  ELSE [c EXCEPT !.seekDebounceTimer = TRUE]

\* a debounce callback that sends without comparing with lastSyncedTime
seekDebounced_NoThreshold(c, now) ==
  [tab |-> [c EXCEPT !.seekDebounceTimer = FALSE, !.lastSyncedTime = c.video.currentTime],
   out |-> sendVideoEvent(c, "seek",
             [NoData EXCEPT !.currentTime = Some(c.video.currentTime),
                            !.paused = Some(c.video.paused)], now)]

\* the callback of the setTimeout of handleSeeked
seekDebounced(c, now) ==
  LET c1 == [c EXCEPT !.seekDebounceTimer = FALSE]
  IN IF OverThreshold(c.video.currentTime, c.lastSyncedTime)
     THEN [tab |-> [c1 EXCEPT !.lastSyncedTime = c.video.currentTime],
           out |-> sendVideoEvent(c, "seek",
                     [NoData EXCEPT !.currentTime = Some(c.video.currentTime),
                                    !.paused = Some(c.video.paused)], now)]
     ELSE [tab |-> c1, out |-> <<>>]

handleRateChange(c, now) ==
  IF c.isSyncing \/ ~c.monitored THEN <<>>
  ELSE sendVideoEvent(c, "ratechange",
         [NoData EXCEPT !.playbackRate = Some(c.video.playbackRate)], now)

\* the `switch (event.eventType)` of handleRemoteVideoEvent.  A sum with an
\* undefined currentTime is NaN and compares false; assigning an undefined
\* playbackRate throws, which ends the switch.
ApplyRemoteEvent(c, event, now, playAllowed) ==
  LET hasTime == event.currentTime # Absent
      hasRate == event.playbackRate # Absent
      seekTo(d, t) == IF hasTime /\ OverThreshold(d.video.currentTime, t)
                      THEN [VideoSetCurrentTime(d, t) EXCEPT !.lastSyncedTime = t]
                      ELSE d
  IN CASE event.eventType = "play" ->
            LET c1 == seekTo(c, IF hasTime THEN event.currentTime[1] + (now - event.timestamp) ELSE 0)
            IN IF ~hasRate THEN c1
               ELSE VideoPlay(VideoSetPlaybackRate(c1, event.playbackRate[1]), playAllowed)
       [] event.eventType = "pause" ->
            VideoPause(seekTo(c, IF hasTime THEN event.currentTime[1] ELSE 0))
       [] event.eventType = "seek" ->
            LET c1 == seekTo(c, IF hasTime THEN event.currentTime[1] ELSE 0)
            IN IF event.paused # Some(TRUE) /\ c1.video.paused
               THEN VideoPlay(c1, playAllowed)
               ELSE IF event.paused = Some(TRUE) /\ ~c1.video.paused THEN VideoPause(c1)
               ELSE c1
       [] event.eventType = "ratechange" ->
            IF hasRate THEN VideoSetPlaybackRate(c, event.playbackRate[1]) ELSE c
       [] OTHER -> c

\* handleRemoteVideoEvent without the isSyncing test of its first line
handleRemoteVideoEvent_WhileSyncing(c, event, now, playAllowed) ==
  IF ~c.monitored THEN c
  ELSE
    LET localAdPlaying  == isYouTubeAdPlaying(c)
        remoteAdPlaying == event.isWatchingAd = Some(TRUE)
        gated           == isYouTube(c.hostname)
        c0 == IF gated THEN hideAdWaitingOverlay(c) ELSE c
        c1 == [c0 EXCEPT !.isSyncing = TRUE]
    IN IF gated /\ remoteAdPlaying /\ ~localAdPlaying
       THEN showAdWaitingOverlay(VideoPause(c))
       ELSE IF gated /\ ~remoteAdPlaying /\ localAdPlaying THEN c
       ELSE IF gated /\ localAdPlaying THEN hideAdWaitingOverlay(c)
       ELSE ScheduleCooldown(ApplyRemoteEvent(c1, event, now, playAllowed))

\* handleRemoteVideoEvent without the `if (isYouTube())` block
handleRemoteVideoEvent_NoAdGate(c, event, now, playAllowed) ==
  IF ~c.monitored \/ c.isSyncing THEN c
  ELSE ScheduleCooldown(ApplyRemoteEvent([c EXCEPT !.isSyncing = TRUE], event, now, playAllowed))

handleRemoteVideoEvent(c, event, now, playAllowed) ==
  IF ~c.monitored \/ c.isSyncing THEN c
  ELSE
    LET localAdPlaying  == isYouTubeAdPlaying(c)
        remoteAdPlaying == event.isWatchingAd = Some(TRUE)
        gated           == isYouTube(c.hostname)
        c0 == IF gated THEN hideAdWaitingOverlay(c) ELSE c
        c1 == [c0 EXCEPT !.isSyncing = TRUE]
    IN IF gated /\ remoteAdPlaying /\ ~localAdPlaying
       THEN showAdWaitingOverlay(VideoPause(c))
       ELSE IF gated /\ ~remoteAdPlaying /\ localAdPlaying THEN c
       ELSE IF gated /\ localAdPlaying THEN hideAdWaitingOverlay(c)
       ELSE ScheduleCooldown(ApplyRemoteEvent(c1, event, now, playAllowed))

\* the callback of the setTimeout in the two `finally` blocks
cooldownElapsed(c) == [c EXCEPT !.isSyncing = FALSE, !.cooldowns = @ - 1]

----------------------------------------------------------------------------
\* background.js: the connection to the signaling server.
\*
\* The background script is a record
\*   currentRoom       currentRoom.id, NoRoom when currentRoom is null
\*   wsConnection      the WebSocket the variable refers to, NoSocket when null
\*   sockets           the WebSockets created so far, in order of creation,
\*                     that are not closed or that wsConnection refers to:
\*                     the readyState, the roomId the handlers were created
\*                     with, and whether the reply to a LEAVE_ROOM sent on it
\*                     is still to come
\*   reconnectAttempts, lastJoinedRoomId
\*   timers            the pending timeouts of onclose
\*   scheduled         history: the timeouts onclose has scheduled since the
\*                     last successful open, room creation, join or startup

MAX_RECONNECT_ATTEMPTS == 5

MaxSockets == 3

MaxTimers == 2

NoSocket == 0

\* the tabs of the browser the background script runs in
MaxBrowserTabs == 2
BrowserTabs == 1..MaxBrowserTabs

\* the calls of openHostUrl that may be under way at once
MaxOpening == 2

\* no tab is active in the last focused window
NoBrowserTab == 0

\* generateRoomId() and the roomId of a JOIN_ROOM request of the popup
GeneratedRoomIds == { <<"G", "1">> }
JoinRoomIds == { <<"r", "1">> }

\* String.prototype.toUpperCase on the characters of the room ids above
UpperCaseChar(ch) == IF ch = "r" THEN "R" ELSE ch

toUpperCase(roomId) == [i \in DOMAIN roomId |-> UpperCaseChar(roomId[i])]

NewBackground ==
  [currentRoom |-> NoRoom, isHost |-> FALSE, wsConnection |-> NoSocket, sockets |-> << >>,
   reconnectAttempts |-> 0, lastJoinedRoomId |-> NoRoom, timers |-> 0, scheduled |-> 0,
   browserTabs |-> [t \in BrowserTabs |-> NoUrl], activeTab |-> NoBrowserTab, opening |-> << >>]

\* wsConnection && wsConnection.readyState === WebSocket.OPEN
IsConnected(b) == b.wsConnection # NoSocket /\ b.sockets[b.wsConnection].readyState = "OPEN"

connectToSignalingServer(b, roomId) ==
  IF IsConnected(b)
  THEN IF b.lastJoinedRoomId = roomId /\ b.currentRoom = roomId THEN b
       ELSE [b EXCEPT !.lastJoinedRoomId = roomId]
  ELSE [b EXCEPT !.sockets = Append(@, [readyState |-> "CONNECTING", roomId |-> roomId, left |-> FALSE]),
                 !.wsConnection = Len(b.sockets) + 1]

\* wsConnection.onopen of socket s.  wsConnection is the global variable: when
\* it is null or refers to a socket that is still connecting, send() throws
\* and the rest of the handler is skipped.
onopen(b, s) ==
  LET b1 == [b EXCEPT !.sockets[s].readyState = "OPEN", !.reconnectAttempts = 0]
  IN IF b1.wsConnection = NoSocket \/ b1.sockets[b1.wsConnection].readyState = "CONNECTING"
     THEN b1
     ELSE [b1 EXCEPT !.lastJoinedRoomId = b.sockets[s].roomId]

\* onclose without the `reconnectAttempts < MAX_RECONNECT_ATTEMPTS` test
onclose_NoCap(b, s) ==
  LET b1 == [b EXCEPT !.sockets[s].readyState = "CLOSED", !.lastJoinedRoomId = NoRoom]
  IN IF b1.currentRoom # NoRoom
     THEN [b1 EXCEPT !.reconnectAttempts = @ + 1, !.timers = @ + 1]
     ELSE b1

\* wsConnection.onclose of socket s
onclose(b, s) ==
  LET b1 == [b EXCEPT !.sockets[s].readyState = "CLOSED", !.lastJoinedRoomId = NoRoom]
  IN IF b1.currentRoom # NoRoom /\ b1.reconnectAttempts < MAX_RECONNECT_ATTEMPTS
     THEN [b1 EXCEPT !.reconnectAttempts = @ + 1, !.timers = @ + 1]
     ELSE b1

\* the callback of the setTimeout of onclose
reconnectTimeout(b) ==
  LET b1 == [b EXCEPT !.timers = @ - 1]
  IN IF b1.currentRoom # NoRoom THEN connectToSignalingServer(b1, b1.currentRoom) ELSE b1

\* WebSocket.close(): a socket that is connecting or open starts closing
closeSocket(socket, leaveSent) ==
  IF socket.readyState \in {"CONNECTING", "OPEN"}
  THEN [socket EXCEPT !.readyState = "CLOSING", !.left = leaveSent]
  ELSE socket

disconnectFromSignalingServer(b) ==
  LET b1 == IF b.wsConnection # NoSocket
            THEN [b EXCEPT !.sockets[b.wsConnection] = closeSocket(@, IsConnected(b) /\ b.currentRoom # NoRoom),
                           !.wsConnection = NoSocket]
            ELSE b
  IN [b1 EXCEPT !.reconnectAttempts = MAX_RECONNECT_ATTEMPTS]

\* handleCreateRoom of background.js
backgroundCreateRoom(b, roomId) ==
  connectToSignalingServer([b EXCEPT !.currentRoom = roomId, !.isHost = TRUE,
                                     !.reconnectAttempts = 0], roomId)

\* handleJoinRoom of background.js (a roomId is given)
backgroundJoinRoom(b, roomId) ==
  connectToSignalingServer([b EXCEPT !.currentRoom = toUpperCase(roomId), !.isHost = FALSE,
                                     !.reconnectAttempts = 0],
                           toUpperCase(roomId))

\* handleLeaveRoom of background.js
backgroundLeaveRoom(b) ==
  [disconnectFromSignalingServer(b) EXCEPT !.currentRoom = NoRoom, !.isHost = FALSE,
                                           !.lastJoinedRoomId = NoRoom]

\* handleSignalingMessage: case 'ROOM_LEFT'
onRoomLeft(b, s) ==
  [b EXCEPT !.sockets[s].left = FALSE, !.currentRoom = NoRoom, !.isHost = FALSE,
            !.lastJoinedRoomId = NoRoom]

\* chrome.runtime.onStartup with a room in chrome.storage.local, as
\* handleCreateRoom stored it
startup(b, roomId) ==
  connectToSignalingServer([b EXCEPT !.currentRoom = roomId, !.isHost = TRUE,
                                     !.reconnectAttempts = 0], roomId)

----------------------------------------------------------------------------
Init ==
  /\ rooms = << >>
  /\ clients = << >>
  /\ roomUrls = << >>
  /\ readyState = [s \in Sessions |-> "NEW"]
  /\ lastUrl = << >>
  /\ tabs = [t \in Tabs |-> NewTab]
  /\ inbox = [t \in Tabs |-> << >>]
  /\ adSeen = [t \in Tabs |-> {}]
  /\ bg = NewBackground
  /\ wire = [toServer |-> << >>, toClient |-> << >>]

\* wss.on('connection')
Connect(ws) ==
  /\ readyState[ws] = "NEW"
  /\ \A other \in Sessions : other < ws => readyState[other] # "NEW"
  /\ readyState' = [readyState EXCEPT ![ws] = "OPEN"]
  /\ clients' = MapSet(clients, ws,
                  [roomId |-> NoRoom, userId |-> NoName, username |-> NoName, isHost |-> FALSE])
  /\ UNCHANGED <<rooms, roomUrls, lastUrl>>
  /\ UNCHANGED extensionVars

\* ws.on('message')
Receive(ws, message) ==
  /\ readyState[ws] = "OPEN"
  /\ LET st == handleMessage(ServerState, ws, message)
     IN /\ rooms' = st.rooms
        /\ clients' = st.clients
        /\ roomUrls' = st.roomUrls
  /\ UNCHANGED <<readyState, lastUrl>>
  /\ UNCHANGED extensionVars

\* ws.on('error'): handleDisconnect runs and the socket is unusable from then on.
\* The 'close' event that follows runs handleDisconnect once more; it finds no
\* clientInfo for ws and changes nothing, so the two are one step here.
Error(ws) ==
  /\ readyState[ws] = "OPEN"
  /\ readyState' = [readyState EXCEPT ![ws] = "CLOSED"]
  /\ LET st == handleDisconnect(ServerState, ws)
     IN /\ rooms' = st.rooms
        /\ clients' = st.clients
        /\ roomUrls' = st.roomUrls
  /\ UNCHANGED lastUrl
  /\ UNCHANGED extensionVars

\* ws.on('close')
Close(ws) ==
  /\ readyState[ws] = "OPEN"
  /\ readyState' = [readyState EXCEPT ![ws] = "CLOSED"]
  /\ LET st == handleDisconnect(ServerState, ws)
     IN /\ rooms' = st.rooms
        /\ clients' = st.clients
        /\ roomUrls' = st.roomUrls
  /\ UNCHANGED lastUrl
  /\ UNCHANGED extensionVars

Next ==
  \/ \E ws \in Sessions : Connect(ws)
  \/ \E ws \in Sessions : \E message \in Messages : Receive(ws, message)
  \/ \E ws \in Sessions : Error(ws)
  \/ \E ws \in Sessions : Close(ws)

Spec == Init /\ [][Next]_vars

----------------------------------------------------------------------------
\* The same server with the history of accepted host URLs recorded, for the
\* first NumUrlSessions connections.

NumUrlSessions == 2
UrlSessions == 1..NumUrlSessions

\* handleMessage reaches roomUrls.set(roomId, url) for this message
UrlAccepted(ws, message) ==
  /\ message.type = "UPDATE_HOST_URL"
  /\ message.roomId # NoRoom
  /\ message.url # NoUrl
  /\ MayUpdateHostUrl(ServerState, ws)
  /\ isValidUrl(message.url)

\* the history after a step that turns the registry into rms: a room that was
\* deleted or has just been created has no accepted update
KeptUrls(rms) == [r \in (DOMAIN lastUrl) \cap (DOMAIN rooms) \cap (DOMAIN rms) |-> lastUrl[r]]

ReceiveUrl(ws, message) ==
  /\ readyState[ws] = "OPEN"
  /\ LET st == handleMessage(ServerState, ws, message)
     IN /\ rooms' = st.rooms
        /\ clients' = st.clients
        /\ roomUrls' = st.roomUrls
        /\ lastUrl' = IF UrlAccepted(ws, message) /\ message.roomId \in DOMAIN st.rooms
                      THEN MapSet(KeptUrls(st.rooms), message.roomId, message.url)
                      ELSE KeptUrls(st.rooms)
  /\ UNCHANGED readyState
  /\ UNCHANGED extensionVars

\* ws.on('close') and ws.on('error')
DisconnectUrl(ws) ==
  /\ readyState[ws] = "OPEN"
  /\ readyState' = [readyState EXCEPT ![ws] = "CLOSED"]
  /\ LET st == handleDisconnect(ServerState, ws)
     IN /\ rooms' = st.rooms
        /\ clients' = st.clients
        /\ roomUrls' = st.roomUrls
        /\ lastUrl' = KeptUrls(st.rooms)
  /\ UNCHANGED extensionVars

NextUrl ==
  \/ \E ws \in UrlSessions : Connect(ws)
  \/ \E ws \in UrlSessions : \E message \in Messages : ReceiveUrl(ws, message)
  \/ \E ws \in UrlSessions : DisconnectUrl(ws)

SpecUrl == Init /\ [][NextUrl]_vars

----------------------------------------------------------------------------
\* content.js as a state machine.  A VIDEO_EVENT a content script sends goes
\* through background.js and the server (handleVideoEvent relays it to every
\* other member of the room) to the content script of every other tab that has
\* one; a tab stands for the browser of one user of the room.

MaxInbox == 2

AdFlags == { Absent, Some(TRUE), Some(FALSE) }

\* VIDEO_EVENT messages a peer outside the model sends; the server relays the
\* event object as it is, so a field may be missing
RemoteEvents ==
  [eventType : {"play"}, currentTime : {Some(10000)}, playbackRate : {Some(150), Absent},
   paused : {Absent}, isWatchingAd : AdFlags, timestamp : {SentAt}]
  \cup [eventType : {"pause"}, currentTime : {Some(20000)}, playbackRate : {Some(150), Absent},
        paused : {Absent}, isWatchingAd : AdFlags, timestamp : {SentAt}]
  \cup [eventType : {"seek"}, currentTime : {Some(10300)}, playbackRate : {Absent},
        paused : {Some(TRUE), Some(FALSE)}, isWatchingAd : AdFlags, timestamp : {SentAt}]
  \cup [eventType : {"ratechange"}, currentTime : {Absent}, playbackRate : {Some(150), Absent},
        paused : {Absent}, isWatchingAd : AdFlags, timestamp : {SentAt}]

\* states of APPLY_VIDEO_STATE messages (getVideoState of a peer)
RemoteStates ==
  [currentTime : {10000}, paused : BOOLEAN, playbackRate : {100, 150},
   timestamp : {SentAt}, isWatchingAd : AdFlags]

Relay(t, out) ==
  IF out = <<>> THEN inbox
  ELSE [u \in Tabs |-> IF u # t /\ tabs[u].hostname # NoPage
                       THEN Append(inbox[u], [from |-> t, event |-> out[1]]) ELSE inbox[u]]

TabStep(t, c, out) ==
  /\ \A u \in Tabs : Len(Relay(t, out)[u]) <= MaxInbox
  /\ tabs' = [tabs EXCEPT ![t] = c]
  /\ inbox' = Relay(t, out)
  /\ UNCHANGED adSeen
  /\ UNCHANGED <<serverVars, bg, wire>>

\* the content script is injected and the page finishes loading
LoadPage(t, hostname, hasVideo) ==
  /\ tabs[t].hostname = NoPage
  /\ LET c == [NewTab EXCEPT !.hostname = hostname]
     IN TabStep(t, IF hasVideo THEN initializeSync(c) ELSE c, <<>>)

\* observeForVideos: a video element is added to the document
VideoAdded(t) ==
  /\ tabs[t].hostname # NoPage
  /\ ~tabs[t].monitored
  /\ TabStep(t, initializeSync(tabs[t]), <<>>)

\* the page starts and stops showing an advertisement
AdStarts(t) ==
  /\ isYouTube(tabs[t].hostname)
  /\ ~tabs[t].adShowing
  /\ TabStep(t, [tabs[t] EXCEPT !.adShowing = TRUE], <<>>)

AdEnds(t) ==
  /\ tabs[t].adShowing
  /\ TabStep(t, [tabs[t] EXCEPT !.adShowing = FALSE], <<>>)

AdCheckTick(t) ==
  /\ tabs[t].adCheckInterval
  /\ LET r == adCheck(tabs[t], SentAt)
     IN TabStep(t, r.tab, r.out)

\* the user operates the player
UserPlay(t) ==
  /\ tabs[t].monitored
  /\ tabs[t].video.paused
  /\ TabStep(t, VideoPlay(tabs[t], TRUE), <<>>)

UserPause(t) ==
  /\ tabs[t].monitored
  /\ ~tabs[t].video.paused
  /\ TabStep(t, VideoPause(tabs[t]), <<>>)

UserSeek(t, time) ==
  /\ tabs[t].monitored
  /\ tabs[t].video.currentTime # time
  /\ TabStep(t, VideoSetCurrentTime(tabs[t], time), <<>>)

UserRate(t, rate) ==
  /\ tabs[t].monitored
  /\ tabs[t].video.playbackRate # rate
  /\ TabStep(t, VideoSetPlaybackRate(tabs[t], rate), <<>>)

\* the video element dispatches a queued event to its listener
DomEvent(t, e) ==
  /\ e \in tabs[t].pending
  /\ LET c == [tabs[t] EXCEPT !.pending = @ \ {e}]
     IN CASE e = "play"       -> TabStep(t, c, handlePlay(c, SentAt))
          [] e = "pause"      -> TabStep(t, c, handlePause(c, SentAt))
          [] e = "seeked"     -> TabStep(t, handleSeeked(c), <<>>)
          [] e = "ratechange" -> TabStep(t, c, handleRateChange(c, SentAt))

SeekDebounceFires(t) ==
  /\ tabs[t].seekDebounceTimer
  /\ LET r == seekDebounced(tabs[t], SentAt)
     IN TabStep(t, r.tab, r.out)

CooldownFires(t) ==
  /\ tabs[t].cooldowns > 0
  /\ TabStep(t, cooldownElapsed(tabs[t]), <<>>)

\* chrome.runtime.onMessage: VIDEO_EVENT from a peer outside the model
ReceiveEvent(t, event, latency, playAllowed) ==
  /\ tabs[t].hostname # NoPage
  /\ TabStep(t, handleRemoteVideoEvent(tabs[t], event, event.timestamp + latency, playAllowed), <<>>)

\* chrome.runtime.onMessage: APPLY_VIDEO_STATE
ReceiveState(t, state, latency, playAllowed) ==
  /\ tabs[t].hostname # NoPage
  /\ TabStep(t, applyVideoState(tabs[t], state, state.timestamp + latency, playAllowed), <<>>)

\* chrome.runtime.onMessage: VIDEO_EVENT relayed from another tab of the model
Deliver(t, latency, playAllowed) ==
  /\ inbox[t] # <<>>
  /\ LET event == Head(inbox[t]).event
     IN /\ tabs' = [tabs EXCEPT ![t] = handleRemoteVideoEvent(tabs[t], event,
                                          event.timestamp + latency, playAllowed)]
        /\ adSeen' = IF event.isWatchingAd = Some(TRUE)
                      THEN [adSeen EXCEPT ![t] = @ \cup {Head(inbox[t]).from}]
                      ELSE adSeen
  /\ inbox' = [inbox EXCEPT ![t] = Tail(@)]
  /\ UNCHANGED <<serverVars, bg, wire>>

\* One tab whose peers are outside the model
SoloTab == CHOOSE t \in Tabs : \A u \in Tabs : t <= u

NextContent ==
  \/ \E hostname \in HostnameInputs : \E hasVideo \in BOOLEAN : LoadPage(SoloTab, hostname, hasVideo)
  \/ VideoAdded(SoloTab)
  \/ AdStarts(SoloTab)
  \/ AdEnds(SoloTab)
  \/ AdCheckTick(SoloTab)
  \/ UserPlay(SoloTab)
  \/ UserPause(SoloTab)
  \/ \E time \in TimeInputs : UserSeek(SoloTab, time)
  \/ \E rate \in RateInputs : UserRate(SoloTab, rate)
  \/ \E e \in DomEvents : DomEvent(SoloTab, e)
  \/ SeekDebounceFires(SoloTab)
  \/ CooldownFires(SoloTab)
  \/ \E event \in RemoteEvents : \E latency \in LatencyInputs : \E playAllowed \in BOOLEAN :
       ReceiveEvent(SoloTab, event, latency, playAllowed)
  \/ \E state \in RemoteStates : \E latency \in LatencyInputs : \E playAllowed \in BOOLEAN :
       ReceiveState(SoloTab, state, latency, playAllowed)

SpecContent == Init /\ [][NextContent]_vars

\* A room of tabs that all show the same YouTube video; the first tab gets an
\* advertisement, which lasts
YouTubePage == <<"www", "youtube", "com">>

\* every tab of the room has loaded the page
RoomReady == \A t \in Tabs : tabs[t].hostname # NoPage

\* the tab of the one user who operates the player
ActiveTab == CHOOSE t \in Tabs : t # SoloTab /\ \A u \in Tabs \ {SoloTab} : t <= u

NextAdWatch ==
  \/ \E t \in Tabs : LoadPage(t, YouTubePage, TRUE)
  \/ RoomReady /\ AdStarts(SoloTab)
  \/ \E t \in Tabs : AdCheckTick(t)
  \/ RoomReady /\ UserPlay(ActiveTab)
  \/ \E t \in Tabs : \E e \in DomEvents : DomEvent(t, e)
  \/ \E t \in Tabs : CooldownFires(t)
  \/ \E t \in Tabs : Deliver(t, 0, TRUE)

SpecAdWatch == Init /\ [][NextAdWatch]_vars

\* A room of NumAdTabs tabs on the same YouTube video in which advertisements
\* start and end on the first tab and the user of the second may start playback.  Timer
\* callbacks, listeners of queued player events and deliveries of relayed
\* messages are run eventually; users and advertisements are not obliged to act.
NumAdTabs == 2
AdTabs == 1..NumAdTabs

AdRoomReady == \A t \in AdTabs : tabs[t].hostname # NoPage

NextAdEnd ==
  \/ \E t \in AdTabs : LoadPage(t, YouTubePage, TRUE)
  \/ AdRoomReady /\ AdStarts(SoloTab)
  \/ AdEnds(SoloTab)
  \/ \E t \in AdTabs : AdCheckTick(t)
  \/ AdRoomReady /\ UserPlay(ActiveTab)
  \/ \E t \in AdTabs : \E e \in DomEvents : DomEvent(t, e)
  \/ \E t \in AdTabs : CooldownFires(t)
  \/ \E t \in AdTabs : Deliver(t, 0, TRUE)

SpecAdEnd ==
  /\ Init
  /\ [][NextAdEnd]_vars
  /\ \A t \in AdTabs :
       /\ WF_vars(AdCheckTick(t))
       /\ WF_vars(\E e \in DomEvents : DomEvent(t, e))
       /\ WF_vars(CooldownFires(t))
       /\ WF_vars(Deliver(t, 0, TRUE))

\* setTimeout callbacks are run once their delay has passed
SpecContentFair == SpecContent /\ WF_vars(CooldownFires(SoloTab))

----------------------------------------------------------------------------
\* background.js as a state machine: the user creates, joins and leaves rooms
\* in the popup while sockets open and close and reconnect timeouts fire.

\* a closed socket that wsConnection does not refer to has no handler left to
\* run and is dropped from the record
Collected(b) ==
  LET keep   == { i \in DOMAIN b.sockets : b.sockets[i].readyState # "CLOSED" \/ i = b.wsConnection }
      rank(i) == Cardinality({ k \in keep : k <= i })
  IN [b EXCEPT !.sockets = [j \in 1..Cardinality(keep) |-> b.sockets[CHOOSE i \in keep : rank(i) = j]],
               !.wsConnection = IF b.wsConnection = NoSocket THEN NoSocket ELSE rank(b.wsConnection)]

BackgroundStep(b) ==
  /\ Len(Collected(b).sockets) <= MaxSockets
  /\ b.timers <= MaxTimers
  /\ bg' = Collected(b)
  /\ UNCHANGED <<serverVars, contentVars, wire>>

CreateRoom(roomId) ==
  BackgroundStep([backgroundCreateRoom(bg, roomId) EXCEPT !.scheduled = 0])

JoinRoom(roomId) ==
  BackgroundStep([backgroundJoinRoom(bg, roomId) EXCEPT !.scheduled = 0])

LeaveRoom ==
  BackgroundStep(backgroundLeaveRoom(bg))

\* the browser starts with a room stored by an earlier session
Startup(roomId) ==
  /\ bg = NewBackground
  /\ BackgroundStep(startup(bg, roomId))

SocketOpens(s) ==
  /\ bg.sockets[s].readyState = "CONNECTING"
  /\ BackgroundStep([onopen(bg, s) EXCEPT !.scheduled = 0])

\* the connection fails, is lost, or finishes closing
SocketCloses(s) ==
  /\ bg.sockets[s].readyState # "CLOSED"
  /\ BackgroundStep([onclose(bg, s) EXCEPT
                       !.scheduled = IF onclose(bg, s).timers > bg.timers THEN @ + 1 ELSE @])

ReconnectTimerFires ==
  /\ bg.timers > 0
  /\ BackgroundStep(reconnectTimeout(bg))

\* the server's ROOM_LEFT arrives on a socket that is closing
RoomLeftArrives(s) ==
  /\ bg.sockets[s].left
  /\ bg.sockets[s].readyState = "CLOSING"
  /\ BackgroundStep(onRoomLeft(bg, s))

NextBackground ==
  \/ \E roomId \in GeneratedRoomIds : CreateRoom(roomId)
  \/ \E roomId \in JoinRoomIds : JoinRoom(roomId)
  \/ LeaveRoom
  \/ \E roomId \in GeneratedRoomIds : Startup(roomId)
  \/ \E s \in DOMAIN bg.sockets : SocketOpens(s)
  \/ \E s \in DOMAIN bg.sockets : SocketCloses(s)
  \/ ReconnectTimerFires
  \/ \E s \in DOMAIN bg.sockets : RoomLeftArrives(s)

SpecBackground == Init /\ [][NextBackground]_vars

----------------------------------------------------------------------------
TypeOK ==
  /\ DOMAIN clients \subseteq Sessions
  /\ \A r \in DOMAIN rooms : SeqRange(rooms[r]) \subseteq Sessions
  /\ \A s \in Sessions : readyState[s] \in ReadyStates

----------------------------------------------------------------------------
\* Vocabulary of the properties

\* the sessions whose connection is open: they can send and receive
OpenSessions == { ws \in Sessions : readyState[ws] = "OPEN" }

\* the member set of room r in the registry rms
Members(rms, r) == IF r \in DOMAIN rms THEN SeqRange(rms[r]) ELSE {}

\* the hostUrl of room r in urls, NoUrl when there is none
HostUrl(urls, r) == IF r \in DOMAIN urls THEN urls[r] ELSE NoUrl

\* the server state after it handled `message` from ws, with the messages it sent
Handled(ws, message) == handleMessage(ServerState, ws, message)

\* the positions of the messages of type `type` in the output `out`
SentOfType(out, type) == { i \in 1..Len(out) : out[i].msg.type = type }

\* the sessions that are sent a message of type `type` in `out`
Recipients(out, type) == { out[i].to : i \in SentOfType(out, type) }

MessagesOfType(types) == { m \in Messages : m.type \in types }

\* ws holds the host flag for room r
IsHostOf(ws, r) == ws \in DOMAIN clients /\ clients[ws].roomId = r /\ clients[ws].isHost

----------------------------------------------------------------------------
\* C1: in every reachable state, each room has at most one member session
\* whose isHost flag is true.
C1_AtMostOneHostPerRoom ==
  \A r \in DOMAIN rooms :
    Cardinality({ m \in Members(rooms, r) : m \in DOMAIN clients /\ clients[m].isHost }) <= 1

\* C2: in every reachable state, every member of a room is a currently
\* connected session and peerCount (the size of the member set) counts exactly
\* the connected members; a room is in the registry exactly when its member set
\* is non-empty.  (The part of the claim that needs no history of joins.)
C2_MembersAreConnectedSessions ==
  \A r \in DOMAIN rooms :
    /\ Members(rooms, r) # {}
    /\ Members(rooms, r) \subseteq OpenSessions
    /\ Len(rooms[r]) = Cardinality(Members(rooms, r) \cap OpenSessions)

\* C3: an UPDATE_HOST_URL naming room R changes R's hostUrl, or sends
\* HOST_URL_UPDATED to anyone, only when the sender is a member of R and holds
\* the host flag for R.
C3_UpdateOnlyByHostOfThatRoom ==
  \A ws \in OpenSessions : \A message \in MessagesOfType({"UPDATE_HOST_URL"}) :
    LET st == Handled(ws, message)
        R  == message.roomId
    IN (\/ HostUrl(st.roomUrls, R) # HostUrl(roomUrls, R)
        \/ Recipients(st.out, "HOST_URL_UPDATED") # {})
       => (ws \in Members(rooms, R) /\ IsHostOf(ws, R))

\* C4: a hostUrl is stored only for rooms that exist, and the session whose
\* JOIN_ROOM creates a room receives hostUrl = null in its ROOM_JOINED.
C4_HostUrlOnlyForExistingRooms ==
  /\ DOMAIN roomUrls \subseteq DOMAIN rooms
  /\ \A ws \in OpenSessions : \A message \in MessagesOfType({"JOIN_ROOM"}) :
       (isValidRoomId(message.roomId) /\ message.roomId \notin DOMAIN rooms)
       => LET out == Handled(ws, message).out
          IN \A i \in SentOfType(out, "ROOM_JOINED") : out[i].msg.hostUrl = NoUrl

\* C5: a session whose JOIN_ROOM (valid room ID) finds no such room receives
\* isHost = true in its ROOM_JOINED; a session other than the room's host whose
\* JOIN_ROOM finds the room existing receives isHost = false.  The flag the
\* server records for the session is the one it reports.
C5_FirstJoinerIsHost ==
  \A ws \in OpenSessions : \A message \in MessagesOfType({"JOIN_ROOM"}) :
    isValidRoomId(message.roomId) =>
      LET st  == Handled(ws, message)
          R   == message.roomId
          ack == SentOfType(st.out, "ROOM_JOINED")
      IN /\ Cardinality(ack) = 1
         /\ \A i \in ack :
              /\ st.out[i].to = ws
              /\ st.out[i].msg.isHost = st.clients[ws].isHost
              /\ R \notin DOMAIN rooms => st.out[i].msg.isHost = TRUE
              /\ (R \in DOMAIN rooms /\ ~IsHostOf(ws, R)) => st.out[i].msg.isHost = FALSE

\* C5 witness: a room holds its creator, flagged host, and a later joiner,
\* flagged guest, and a third session is about to join it.
C5_Witness ==
  \E r \in DOMAIN rooms : \E a, b, c \in OpenSessions :
    /\ a # b /\ c \notin Members(rooms, r)
    /\ IsHostOf(a, r) /\ clients[b].roomId = r /\ ~clients[b].isHost
    /\ rooms[r] = <<a, b>>

\* C6: a JOIN_ROOM from a session that is already a member of that room never
\* changes its isHost flag or the member count, sends PEER_JOINED to nobody, and
\* sends USERS_UPDATE to the connected members of the room.
C6_RejoinKeepsRoleAndRefreshes ==
  \A ws \in OpenSessions : \A message \in MessagesOfType({"JOIN_ROOM"}) :
    (isValidRoomId(message.roomId) /\ ws \in Members(rooms, message.roomId)) =>
      LET st == Handled(ws, message)
          R  == message.roomId
      IN /\ st.clients[ws].isHost = clients[ws].isHost
         /\ Len(st.rooms[R]) = Len(rooms[R])
         /\ Recipients(st.out, "PEER_JOINED") = {}
         /\ Recipients(st.out, "USERS_UPDATE") = Members(rooms, R) \cap OpenSessions

\* C7: an UPDATE_HOST_URL from a session whose isHost flag is false changes no
\* room's hostUrl and sends HOST_URL_UPDATED to nobody.
C7_NonHostCannotUpdateUrl ==
  \A ws \in OpenSessions : \A message \in MessagesOfType({"UPDATE_HOST_URL"}) :
    ~clients[ws].isHost =>
      LET st == Handled(ws, message)
      IN /\ st.roomUrls = roomUrls
         /\ Recipients(st.out, "HOST_URL_UPDATED") = {}

\* C7 witness: a guest shares a room with its host, the host has published a
\* URL, and the guest can name a different valid URL.
C7_Witness ==
  \E r \in DOMAIN rooms : \E host, guest \in OpenSessions :
    /\ IsHostOf(host, r)
    /\ guest \in Members(rooms, r) /\ clients[guest].roomId = r /\ ~clients[guest].isHost
    /\ r \in DOMAIN roomUrls
    /\ \E message \in MessagesOfType({"UPDATE_HOST_URL"}) :
         message.roomId = r /\ isValidUrl(message.url) /\ message.url # roomUrls[r]

\* C8: a VIDEO_EVENT sent by a member A of room R is delivered, with the event
\* payload unchanged, once to every other connected member of R, not to A, and
\* to no session outside R.
C8_VideoEventRelay ==
  \A ws \in OpenSessions : \A message \in MessagesOfType({"VIDEO_EVENT"}) :
    (message.roomId # NoRoom /\ message.event # Absent /\ ws \in Members(rooms, message.roomId)) =>
      LET out == Handled(ws, message).out
          R   == message.roomId
      IN /\ { out[i].to : i \in 1..Len(out) } = (Members(rooms, R) \cap OpenSessions) \ {ws}
         /\ Len(out) = Cardinality((Members(rooms, R) \cap OpenSessions) \ {ws})
         /\ \A i \in 1..Len(out) :
              out[i].msg = [type |-> "VIDEO_EVENT", event |-> message.event[1]]

\* C8 witness: a member of a room with another connected member, while a third
\* connected session is outside the room.
C8_Witness ==
  \E r \in DOMAIN rooms : \E a, b, c \in OpenSessions :
    /\ a # b
    /\ {a, b} \subseteq Members(rooms, r)
    /\ c \notin Members(rooms, r)
    /\ Len(Handled(a, [type |-> "VIDEO_EVENT", roomId |-> r,
                       event |-> <<[eventType |-> "play", currentTime |-> 10]>>]).out) = 1

\* C9: a VIDEO_EVENT or SYNC_VIDEO_STATE naming room R is relayed to R's members
\* only if the sender is a member of R.
C9_RelayOnlyFromMembers ==
  \A ws \in OpenSessions : \A message \in MessagesOfType({"VIDEO_EVENT", "SYNC_VIDEO_STATE"}) :
    Handled(ws, message).out # <<>> => ws \in Members(rooms, message.roomId)

\* C10: a LEAVE_ROOM naming a room the sender is not a member of changes
\* nothing: the sender's currentRoomId and isHost flag and every room's member
\* set are unchanged, and no ROOM_LEFT or PEER_LEFT is sent.
C10_LeaveOfForeignRoomIsNoOp ==
  \A ws \in OpenSessions : \A message \in MessagesOfType({"LEAVE_ROOM"}) :
    ws \notin Members(rooms, message.roomId) =>
      LET st == Handled(ws, message)
      IN /\ st.clients[ws].roomId = clients[ws].roomId
         /\ st.clients[ws].isHost = clients[ws].isHost
         /\ st.rooms = rooms
         /\ Recipients(st.out, "ROOM_LEFT") = {}
         /\ Recipients(st.out, "PEER_LEFT") = {}

\* C11: in every reachable state a session is a member of at most one room, and
\* that room is the one recorded as its roomId; a JOIN_ROOM for a different room
\* removes the session from its old room (PEER_LEFT to the old room's remaining
\* members, no ROOM_LEFT to the requester) before it is added to the new one.
C11_MemberOfOnlyItsCurrentRoom ==
  /\ \A s \in Sessions :
       /\ Cardinality({ r \in DOMAIN rooms : s \in Members(rooms, r) }) <= 1
       /\ \A r \in DOMAIN rooms :
            s \in Members(rooms, r) => (s \in DOMAIN clients /\ clients[s].roomId = r)
  /\ \A ws \in OpenSessions : \A message \in MessagesOfType({"JOIN_ROOM"}) :
       LET old == clients[ws].roomId
           R   == message.roomId
       IN (isValidRoomId(R) /\ old # NoRoom /\ old # R) =>
            LET st == Handled(ws, message)
            IN /\ ws \notin Members(st.rooms, old)
               /\ Members(st.rooms, R) = Members(rooms, R) \cup {ws}
               /\ Recipients(st.out, "PEER_LEFT") = (Members(rooms, old) \cap OpenSessions) \ {ws}
               /\ Recipients(st.out, "ROOM_LEFT") = {}
               /\ \A i \in SentOfType(st.out, "PEER_LEFT") :
                    \A j \in SentOfType(st.out, "ROOM_JOINED") : i < j

\* C12: when a session disconnects it is removed from its current room exactly
\* as by LEAVE_ROOM (the remaining members receive PEER_LEFT with the new count,
\* an emptied room is deleted) but no ROOM_LEFT is sent; after the disconnect no
\* room's member set contains that session.
C12_DisconnectLeavesEveryRoom ==
  \A ws \in OpenSessions :
    LET st == handleDisconnect(ServerState, ws)
        R  == clients[ws].roomId
    IN /\ \A r \in DOMAIN st.rooms : ws \notin Members(st.rooms, r)
       /\ Recipients(st.out, "ROOM_LEFT") = {}
       /\ ws \notin DOMAIN st.clients
       /\ R # NoRoom =>
            LET left == Handled(ws, [type |-> "LEAVE_ROOM", roomId |-> R])
            IN /\ st.rooms = left.rooms
               /\ st.roomUrls = left.roomUrls
               /\ Recipients(st.out, "PEER_LEFT") = (Members(rooms, R) \cap OpenSessions) \ {ws}
               /\ \A i \in SentOfType(st.out, "PEER_LEFT") :
                    st.out[i].msg.peerCount = Cardinality(Members(rooms, R) \ {ws})
               /\ Members(rooms, R) \subseteq {ws} => R \notin DOMAIN st.rooms

\* C13: a LEAVE_ROOM by a member of room R sends ROOM_LEFT{R} to the requester
\* and PEER_LEFT to every remaining member (whose connection is open) with
\* peerCount equal to the remaining member count; when the leaver was the last
\* member no PEER_LEFT is sent and the room is deleted.
C13_LeaveNotifiesRequesterAndPeers ==
  \A ws \in OpenSessions : \A message \in MessagesOfType({"LEAVE_ROOM"}) :
    ws \in Members(rooms, message.roomId) =>
      LET st        == Handled(ws, message)
          R         == message.roomId
          remaining == Members(rooms, R) \ {ws}
          roomLeft  == SentOfType(st.out, "ROOM_LEFT")
          peerLeft  == SentOfType(st.out, "PEER_LEFT")
      IN /\ Cardinality(roomLeft) = 1
         /\ \A i \in roomLeft : st.out[i].to = ws /\ st.out[i].msg.roomId = R
         /\ Recipients(st.out, "PEER_LEFT") = remaining \cap OpenSessions
         /\ Cardinality(peerLeft) = Cardinality(remaining \cap OpenSessions)
         /\ \A i \in peerLeft : st.out[i].msg.peerCount = Cardinality(remaining)
         /\ Members(st.rooms, R) = remaining
         /\ remaining = {} => (R \notin DOMAIN st.rooms /\ peerLeft = {})
         /\ remaining # {} => R \in DOMAIN st.rooms

\* C13 witness: a room with three open members, each recorded in that room, so
\* that the leave of one sends ROOM_LEFT and two PEER_LEFT.
C13_Witness ==
  \E r \in DOMAIN rooms : \E a, b, c \in OpenSessions :
    /\ a # b /\ b # c /\ a # c
    /\ rooms[r] = <<a, b, c>>
    /\ \A m \in {a, b, c} : clients[m].roomId = r
    /\ Len(Handled(a, [type |-> "LEAVE_ROOM", roomId |-> r]).out) = 3

\* C14: a JOIN_ROOM whose roomId is missing or is not 1-20 alphanumeric
\* characters produces an ERROR sent only to the requesting session and leaves
\* all server state (rooms, memberships, host flags, hostUrls) unchanged.
C14_BadRoomIdJoinIsRejected ==
  \A ws \in OpenSessions : \A message \in MessagesOfType({"JOIN_ROOM"}) :
    LET R == message.roomId
    IN (\/ R = NoRoom
        \/ Len(R) > RoomIdMaxLen
        \/ \E i \in 1..Len(R) : R[i] \notin AlnumChars) =>
         LET st == Handled(ws, message)
         IN /\ Len(st.out) = 1
            /\ st.out[1].to = ws
            /\ st.out[1].msg.type = "ERROR"
            /\ st.rooms = rooms
            /\ st.clients = clients
            /\ st.roomUrls = roomUrls

\* C14 witness: the host of a room that has a guest and a hostUrl sends a
\* JOIN_ROOM with an over-long roomId and one with no roomId, and is answered
\* with the two different errors.
C14_Witness ==
  \E r \in DOMAIN rooms : \E host, guest \in OpenSessions :
    /\ IsHostOf(host, r)
    /\ rooms[r] = <<host, guest>>
    /\ r \in DOMAIN roomUrls
    /\ LET join(id) == [type |-> "JOIN_ROOM", roomId |-> id, userId |-> NoName,
                        username |-> NoName, generated |-> "g1"]
       IN /\ join(LongRoomId) \in Messages
          /\ Handled(host, join(LongRoomId)).out[1].msg.error
               = "Invalid room ID format. Room ID must be 1-20 alphanumeric characters."
          /\ Handled(host, join(NoRoom)).out[1].msg.error = "Room ID is required"

\* C15: a VIDEO_EVENT or SYNC_VIDEO_STATE message that lacks roomId yields an
\* ERROR reported to the sending session and causes no state transition and no
\* relay.
C15_RelayWithoutRoomIdIsAnError ==
  \A ws \in OpenSessions : \A message \in MessagesOfType({"VIDEO_EVENT", "SYNC_VIDEO_STATE"}) :
    message.roomId = NoRoom =>
      LET st == Handled(ws, message)
      IN /\ Recipients(st.out, "ERROR") = {ws}
         /\ Recipients(st.out, "VIDEO_EVENT") = {}
         /\ Recipients(st.out, "SYNC_VIDEO_STATE") = {}
         /\ st.rooms = rooms
         /\ st.clients = clients
         /\ st.roomUrls = roomUrls

\* C16: an UPDATE_HOST_URL attempt (roomId and url present) by a session whose
\* isHost flag is false produces an ERROR returned only to the requesting
\* session, with no room state change.
C16_NonHostUpdateIsAnError ==
  \A ws \in OpenSessions : \A message \in MessagesOfType({"UPDATE_HOST_URL"}) :
    (message.roomId # NoRoom /\ message.url # NoUrl /\ ~clients[ws].isHost) =>
      LET st == Handled(ws, message)
      IN /\ Recipients(st.out, "ERROR") = {ws}
         /\ \A i \in 1..Len(st.out) : st.out[i].to = ws
         /\ st.rooms = rooms
         /\ st.clients = clients
         /\ st.roomUrls = roomUrls

\* C17: an UPDATE_HOST_URL from the host of the room it names, whose url is not
\* a parseable http/https URL, is rejected: the host receives ERROR, the room's
\* hostUrl keeps its previous value, and no HOST_URL_UPDATED is sent to anyone.
C17_InvalidUrlFromHostIsRejected ==
  \A ws \in OpenSessions : \A message \in MessagesOfType({"UPDATE_HOST_URL"}) :
    LET R   == message.roomId
        url == message.url
    IN (/\ R # NoRoom
        /\ IsHostOf(ws, R)
        /\ (url = NoUrl \/ Len(url) # 2 \/ url[1] \notin {"http:", "https:"})) =>
         LET st == Handled(ws, message)
         IN /\ Recipients(st.out, "ERROR") = {ws}
            /\ HostUrl(st.roomUrls, R) = HostUrl(roomUrls, R)
            /\ Recipients(st.out, "HOST_URL_UPDATED") = {}

\* C18: a valid UPDATE_HOST_URL (http or https url) from the host of room R
\* stores the url as R's hostUrl and sends HOST_URL_UPDATED with that url to
\* every other member of R (whose connection is open) and not to the host
\* itself.
C18_HostUpdateIsStoredAndSent ==
  \A ws \in OpenSessions : \A message \in MessagesOfType({"UPDATE_HOST_URL"}) :
    LET R   == message.roomId
        url == message.url
    IN (/\ R # NoRoom
        /\ IsHostOf(ws, R)
        /\ url # NoUrl /\ Len(url) = 2 /\ url[1] \in {"http:", "https:"}) =>
         LET st     == Handled(ws, message)
             others == (Members(rooms, R) \cap OpenSessions) \ {ws}
         IN /\ HostUrl(st.roomUrls, R) = url
            /\ \A i \in 1..Len(st.out) :
                 st.out[i].msg = [type |-> "HOST_URL_UPDATED", url |-> url]
            /\ { st.out[i].to : i \in 1..Len(st.out) } = others
            /\ Len(st.out) = Cardinality(others)
            /\ st.rooms = rooms
            /\ st.clients = clients

\* C18 witness: the host of a room with two guests and a published hostUrl
\* sends the other valid url.
C18_Witness ==
  \E r \in DOMAIN rooms : \E host, b, c \in OpenSessions :
    /\ IsHostOf(host, r)
    /\ rooms[r] = <<host, b, c>>
    /\ HostUrl(roomUrls, r) = <<"https:", "//a.example/v1">>
    /\ LET st == Handled(host, [type |-> "UPDATE_HOST_URL", roomId |-> r,
                                url |-> <<"http:", "//a.example/v2">>])
       IN Len(st.out) = 2 /\ st.roomUrls[r] = <<"http:", "//a.example/v2">>

\* C19: the hostUrl field of every ROOM_JOINED sent to a non-host joiner or
\* rejoiner of room R equals the url of the most recent accepted UPDATE_HOST_URL
\* for R since R was created, or null if there was none.  (Under SpecUrl, which
\* records that url in lastUrl.)
C19_JoinerReceivesLastAcceptedUrl ==
  \A ws \in OpenSessions : \A message \in MessagesOfType({"JOIN_ROOM"}) :
    isValidRoomId(message.roomId) =>
      LET st == Handled(ws, message)
          R  == message.roomId
      IN \A i \in SentOfType(st.out, "ROOM_JOINED") :
           ~st.out[i].msg.isHost => st.out[i].msg.hostUrl = HostUrl(lastUrl, R)

\* C20: after the host of a room leaves or disconnects while other members
\* remain, no session in that room has isHost = true, and no later joiner or
\* returning former host obtains it, until the room has been emptied and
\* recreated.  Stated over every step of the server (a message handled, a
\* disconnect): in a room that exists before and after the step, the departure
\* of the host leaves no member flagged host, and a room without a member
\* flagged host does not gain one.
C20_HostRoleIsNeverReassigned ==
  LET HostsIn(st, r) ==
        { m \in Members(st.rooms, r) : m \in DOMAIN st.clients /\ st.clients[m].isHost }
      HostDeparts(st, r) ==
        \E h \in Members(rooms, r) : IsHostOf(h, r) /\ h \notin Members(st.rooms, r)
      Keeps(st) ==
        \A r \in (DOMAIN rooms) \cap (DOMAIN st.rooms) :
          /\ HostDeparts(st, r) => HostsIn(st, r) = {}
          /\ HostsIn(ServerState, r) = {} => HostsIn(st, r) = {}
  IN \A ws \in OpenSessions :
       /\ \A message \in Messages : Keeps(Handled(ws, message))
       /\ Keeps(handleDisconnect(ServerState, ws))

\* C21: every ROOM_JOINED, PEER_JOINED and PEER_LEFT carries a peerCount equal
\* to the size of the room's member set at the moment it is sent, and its users
\* list has exactly one {id, name} entry per member of the room.  (The room of a
\* PEER_LEFT is the one being left: the room named by LEAVE_ROOM, or the
\* sender's recorded room on a switching JOIN_ROOM and on a disconnect.)
C21_PeerCountAndUsersMatchMembers ==
  LET Counts(st, R, types) ==
        \A i \in 1..Len(st.out) :
          st.out[i].msg.type \in types =>
            /\ st.out[i].msg.peerCount = Cardinality(Members(st.rooms, R))
            /\ Len(st.out[i].msg.users) = Cardinality(Members(st.rooms, R))
  IN \A ws \in OpenSessions :
       /\ \A message \in MessagesOfType({"JOIN_ROOM"}) :
            /\ Counts(Handled(ws, message), message.roomId, {"ROOM_JOINED", "PEER_JOINED"})
            /\ Counts(Handled(ws, message), clients[ws].roomId, {"PEER_LEFT"})
       /\ \A message \in MessagesOfType({"LEAVE_ROOM"}) :
            Counts(Handled(ws, message), message.roomId, {"PEER_LEFT"})
       /\ Counts(handleDisconnect(ServerState, ws), clients[ws].roomId, {"PEER_LEFT"})

C23_HostFlagImpliesMembership ==
  /\ \A s \in DOMAIN clients :
       clients[s].isHost =>
         (clients[s].roomId # NoRoom /\ s \in Members(rooms, clients[s].roomId))
  /\ \A ws \in OpenSessions :
       /\ \A message \in MessagesOfType({"LEAVE_ROOM"}) :
            ws \in Members(rooms, message.roomId) =>
              ~Handled(ws, message).clients[ws].isHost
       /\ \A message \in MessagesOfType({"JOIN_ROOM"}) :
            LET old == clients[ws].roomId
                R   == message.roomId
            IN (isValidRoomId(R) /\ old # NoRoom /\ old # R) =>
                 LET left == handleLeaveRoom(ServerState, ws, old, FALSE)
                 IN /\ ~left.clients[ws].isHost
                    /\ Handled(ws, message).clients[ws].isHost => R \notin DOMAIN left.rooms
       /\ ws \notin DOMAIN handleDisconnect(ServerState, ws).clients

\* C23 witness: the host of a room with a guest, while another room exists, so
\* that the host can leave explicitly, switch to the other room or disconnect.
C23_Witness ==
  \E r, r2 \in DOMAIN rooms : \E host, guest \in OpenSessions :
    /\ r # r2
    /\ IsHostOf(host, r)
    /\ rooms[r] = <<host, guest>>
    /\ ~Handled(host, [type |-> "LEAVE_ROOM", roomId |-> r]).clients[host].isHost
    /\ ~Handled(host, [type |-> "JOIN_ROOM", roomId |-> r2, userId |-> NoName,
                       username |-> NoName, generated |-> "g1"]).clients[host].isHost

----------------------------------------------------------------------------
\* Claims about the content script

\* what the listener of the player event e sends when it runs in c
ListenerOut(c, e) ==
  CASE e = "play"       -> handlePlay(c, SentAt)
    [] e = "pause"      -> handlePause(c, SentAt)
    [] e = "ratechange" -> handleRateChange(c, SentAt)
    [] OTHER            -> <<>>

\* C24: while isSyncing is true no play, pause, seeked or ratechange event of
\* the player makes the content script send a VIDEO_EVENT (its listener sends
\* nothing, a seeked event starts no debounce timer, and a debounce timer
\* that fires sends nothing); while it is false a play, pause or ratechange
\* event makes it send exactly one VIDEO_EVENT of that type.
C24_LocalEventsAreSentUnlessSyncing ==
  \A t \in Tabs :
    LET c == tabs[t]
    IN /\ \A e \in c.pending :
            /\ c.isSyncing => ListenerOut(c, e) = <<>> /\ handleSeeked(c) = c
            /\ (~c.isSyncing /\ e \in {"play", "pause", "ratechange"}) =>
                 Len(ListenerOut(c, e)) = 1 /\ ListenerOut(c, e)[1].eventType = e
       /\ (c.isSyncing /\ c.seekDebounceTimer) => seekDebounced(c, SentAt).out = <<>>

\* C24 witness: during the cooldown the player has an event queued for its
\* listeners while a debounced seek over the threshold waits for its timer
C24_Witness ==
  \E t \in Tabs :
    /\ tabs[t].isSyncing
    /\ tabs[t].pending # {}
    /\ tabs[t].seekDebounceTimer
    /\ OverThreshold(tabs[t].video.currentTime, tabs[t].lastSyncedTime)

\* the content script after chrome.runtime.onMessage has handled an inbound
\* VIDEO_EVENT or APPLY_VIDEO_STATE in c, for every latency and every outcome
\* of video.play()
AfterEvent(c, event) ==
  { handleRemoteVideoEvent(c, event, event.timestamp + latency, playAllowed) :
      latency \in LatencyInputs, playAllowed \in BOOLEAN }

AfterState(c, state) ==
  { applyVideoState(c, state, state.timestamp + latency, playAllowed) :
      latency \in LatencyInputs, playAllowed \in BOOLEAN }

\* every content script that an inbound message of the given ad flag can leave
AfterInbound(c, flags) ==
  UNION { AfterEvent(c, event) : event \in { e \in RemoteEvents : e.isWatchingAd \in flags } }
  \cup UNION { AfterState(c, state) : state \in { s \in RemoteStates : s.isWatchingAd \in flags } }

\* d is c with the player paused and the overlay shown, and nothing else of
\* the player or the reconciler changed
PausedBehindOverlay(c, d) ==
  /\ d.video.paused
  /\ d.overlay
  /\ d.video.currentTime = c.video.currentTime
  /\ d.video.playbackRate = c.video.playbackRate
  /\ d.lastSyncedTime = c.lastSyncedTime
  /\ d.isSyncing = c.isSyncing

\* C25: when the local session has a player and is not watching an ad, an
\* inbound event or state with isWatchingAd = true leaves the player paused
\* and the overlay shown, with position, playback rate, lastSyncedTime and
\* isSyncing unchanged.
C25_RemoteAdPausesBehindOverlay ==
  \A t \in Tabs :
    (tabs[t].monitored /\ ~isYouTubeAdPlaying(tabs[t])) =>
      \A d \in AfterInbound(tabs[t], {Some(TRUE)}) : PausedBehindOverlay(tabs[t], d)

\* d is c except that the player may have been paused and the overlay changed:
\* the apply logic after the ad gate has not run
NotApplied(c, d) ==
  /\ d.video.currentTime = c.video.currentTime
  /\ d.video.playbackRate = c.video.playbackRate
  /\ (d.video.paused = c.video.paused \/ d.video.paused)
  /\ d.lastSyncedTime = c.lastSyncedTime
  /\ d.isSyncing = c.isSyncing
  /\ d.cooldowns = c.cooldowns

\* C26 (as stated): an inbound event or state reaches the apply logic only when
\* the local ad oracle and the message's isWatchingAd are both false; while the
\* local session watches an ad an inbound message changes nothing on the
\* player; when neither side watches an ad the overlay is hidden.
C26_ApplyOnlyWhenNobodyWatchesAd ==
  \A t \in Tabs :
    LET c == tabs[t]
    IN /\ \A d \in AfterInbound(c, {Some(TRUE)}) : NotApplied(c, d)
       /\ isYouTubeAdPlaying(c) =>
            \A d \in AfterInbound(c, AdFlags) : NotApplied(c, d) /\ d.video = c.video
       /\ ~isYouTubeAdPlaying(c) =>
            \A d \in AfterInbound(c, {Absent, Some(FALSE)}) : ~d.overlay

\* C26 (amended): on a YouTube page an inbound event or state reaches the apply
\* logic only when the local ad oracle and the message's isWatchingAd are both
\* false; while the local session watches an ad an inbound message changes
\* nothing on the player; when neither side watches an ad the overlay is hidden.
C26_ApplyOnlyWhenNobodyWatchesAdOnYouTube ==
  \A t \in Tabs :
    LET c == tabs[t]
    IN /\ isYouTube(c.hostname) =>
            \A d \in AfterInbound(c, {Some(TRUE)}) : NotApplied(c, d)
       /\ isYouTubeAdPlaying(c) =>
            \A d \in AfterInbound(c, AdFlags) : NotApplied(c, d) /\ d.video = c.video
       /\ ~isYouTubeAdPlaying(c) =>
            \A d \in AfterInbound(c, {Absent, Some(FALSE)}) : ~d.overlay

\* C26 witness: a YouTube tab that is not watching an ad shows the overlay
\* while its player plays at a position other than the inbound ones
C26_Witness ==
  \E t \in Tabs :
    /\ isYouTube(tabs[t].hostname)
    /\ tabs[t].monitored
    /\ ~isYouTubeAdPlaying(tabs[t])
    /\ tabs[t].overlay
    /\ ~tabs[t].video.paused
    /\ ~tabs[t].isSyncing

\* C29: whenever isSyncing is set a timeout that clears it is pending, whatever
\* the apply logic did (video.play() rejected, a setter threw), and isSyncing
\* is always cleared again, after which an inbound event passes the isSyncing
\* check of handleRemoteVideoEvent.
C29_SyncingIsAlwaysCleared ==
  /\ [](\A t \in Tabs : tabs[t].isSyncing => tabs[t].cooldowns > 0)
  /\ \A t \in Tabs : tabs[t].isSyncing ~> ~tabs[t].isSyncing

\* C29 witness: isSyncing is set although the apply logic changed nothing on
\* the paused player, as after a rejected video.play() or a playbackRate
\* setter that threw
C29_Witness ==
  \E t \in Tabs :
    /\ tabs[t].isSyncing
    /\ tabs[t].cooldowns = 1
    /\ tabs[t].video.paused
    /\ tabs[t].pending = {}

\* a is watching an ad and its ad-start announcement has been delivered to
\* every other tab of the room
AdAnnounced(a) ==
  /\ isYouTubeAdPlaying(tabs[a])
  /\ \A u \in Tabs \ {a} : a \in adSeen[u]

\* C27: in a room of three or more sessions, while one session watches an ad
\* and its ad-start announcement has been delivered, a session that is not
\* watching an ad neither applies the next inbound event of a peer that is not
\* watching an ad nor hides its waiting overlay on it.
C27_NoSyncWhileAPeerWatchesAd ==
  \A t \in Tabs :
    (/\ NumTabs >= 3
     /\ \E a \in Tabs \ {t} : AdAnnounced(a)
     /\ ~isYouTubeAdPlaying(tabs[t])
     /\ inbox[t] # <<>>
     /\ ~isYouTubeAdPlaying(tabs[Head(inbox[t]).from])
     /\ Head(inbox[t]).event.isWatchingAd # Some(TRUE))
    => \A d \in AfterEvent(tabs[t], Head(inbox[t]).event) :
         NotApplied(tabs[t], d) /\ (tabs[t].overlay => d.overlay)

\* C28: if from some point on no session of the room watches an ad, and every
\* sent message is delivered, then from some point on the waiting overlay of
\* every session is hidden.
C28_OverlaysAreHiddenOnceAdsEnd ==
  <>[](\A t \in Tabs : ~tabs[t].adShowing) => <>[](\A t \in Tabs : ~tabs[t].overlay)

----------------------------------------------------------------------------
\* Claims about the background script

\* every reconnect attempt has failed: the counter is at its cap, no timeout
\* is pending and no socket is connecting, open or closing
ReconnectExhausted ==
  /\ bg.reconnectAttempts = MAX_RECONNECT_ATTEMPTS
  /\ bg.timers = 0
  /\ \A s \in DOMAIN bg.sockets : bg.sockets[s].readyState = "CLOSED"

\* C30: onclose schedules at most MAX_RECONNECT_ATTEMPTS reconnect timeouts
\* since the last successful open, room creation, join or startup; onopen sets
\* reconnectAttempts to 0; while reconnectAttempts is at the cap no timeout is
\* scheduled, and once every attempt has failed a new connection is made only
\* by a step that also resets the counter, which only creating or joining a
\* room does.
C30_ReconnectAttemptsAreCapped ==
  /\ [](/\ bg.scheduled <= MAX_RECONNECT_ATTEMPTS
        /\ bg.reconnectAttempts <= MAX_RECONNECT_ATTEMPTS
        /\ \A s \in DOMAIN bg.sockets :
             bg.sockets[s].readyState = "CONNECTING" => onopen(bg, s).reconnectAttempts = 0)
  /\ [][/\ bg.reconnectAttempts = MAX_RECONNECT_ATTEMPTS => bg'.timers <= bg.timers
        /\ ReconnectExhausted =>
             \/ \A s \in DOMAIN bg'.sockets : bg'.sockets[s].readyState = "CLOSED"
             \/ bg'.reconnectAttempts = 0 /\ bg'.currentRoom # NoRoom]_vars

\* C30 witness: in a room, after MAX_RECONNECT_ATTEMPTS reconnect attempts in a
\* row have failed
C30_Witness ==
  /\ ReconnectExhausted
  /\ bg.currentRoom # NoRoom
  /\ bg.scheduled = MAX_RECONNECT_ATTEMPTS

----------------------------------------------------------------------------
\* Claims of the last group: room ids, seek debounce, ad poll, cooldown,
\* apply logic, host flag of the client, connections, host URL

\* the room ids a and b differ at most in letter case
SameRoomIdIgnoringCase(a, b) == toUpperCase(a) = toUpperCase(b)

\* C31: room ids are case-insensitive: when a room holds exactly its first
\* joiner, a JOIN_ROOM of a session that is in no room, with a valid room id
\* that differs from the room's id at most in letter case, puts the session
\* into that room, and its ROOM_JOINED carries peerCount 2 and isHost = false.
C31_RoomIdsAreCaseInsensitive ==
  \A r \in DOMAIN rooms : \A a, ws \in OpenSessions :
    \A message \in MessagesOfType({"JOIN_ROOM"}) :
      (/\ Members(rooms, r) = {a}
       /\ clients[a].roomId = r
       /\ clients[ws].roomId = NoRoom
       /\ \A q \in DOMAIN rooms : ws \notin Members(rooms, q)
       /\ isValidRoomId(message.roomId)
       /\ SameRoomIdIgnoringCase(message.roomId, r))
      => LET st  == Handled(ws, message)
             ack == SentOfType(st.out, "ROOM_JOINED")
         IN /\ st.clients[ws].roomId = st.clients[a].roomId
            /\ Cardinality(ack) = 1
            /\ \A i \in ack : st.out[i].msg.peerCount = 2 /\ st.out[i].msg.isHost = FALSE

\* the evaluation of the pending seek debounce timeout of c sends exactly the
\* seek event of the player's position and paused flag, or nothing
SeekEvaluation(c, sends) ==
  LET r == seekDebounced(c, SentAt)
  IN /\ ~r.tab.seekDebounceTimer
     /\ Len(r.out) <= 1
     /\ Len(r.out) = 1 <=> sends
     /\ Len(r.out) = 1 =>
          /\ r.out[1].eventType = "seek"
          /\ r.out[1].currentTime = Some(c.video.currentTime)
          /\ r.out[1].paused = Some(c.video.paused)

C33_EveryAdTransitionIsAnnounced ==
  \A t \in Tabs :
    LET c == tabs[t]
        r == adCheck(c, SentAt)
    IN (c.adCheckInterval /\ c.monitored /\ isYouTubeAdPlaying(c) # c.isWatchingAd) =>
         /\ r.tab.isWatchingAd = isYouTubeAdPlaying(c)
         /\ Len(r.out) = 1
         /\ r.out[1].isWatchingAd = Some(isYouTubeAdPlaying(c))
         /\ r.out[1].eventType = IF isYouTubeAdPlaying(c) \/ c.video.paused THEN "pause" ELSE "play"

SentShape(event) ==
  CASE event.eventType = "play"       -> event.currentTime # Absent /\ event.playbackRate # Absent
    [] event.eventType = "pause"      -> event.currentTime # Absent /\
                                         (event.playbackRate # Absent => event.isWatchingAd = Some(FALSE))
    [] event.eventType = "seek"       -> event.currentTime # Absent /\ event.paused # Absent
    [] event.eventType = "ratechange" -> event.playbackRate # Absent
    [] OTHER                          -> FALSE

\* the paused flag and the playback rate an event denotes, Absent when it
\* denotes none
DenotedPaused(event) ==
  CASE event.eventType = "play"  -> Some(FALSE)
    [] event.eventType = "pause" -> Some(TRUE)
    [] OTHER                     -> event.paused

DenotedRate(event) == event.playbackRate

\* the inbound message reaches the apply logic in c
PassesGate(c, flag) ==
  /\ c.monitored
  /\ ~c.isSyncing
  /\ isYouTube(c.hostname) => (~isYouTubeAdPlaying(c) /\ flag # Some(TRUE))

\* C35: whenever an inbound event or state passes the ad gate and is applied,
\* and video.play() succeeds, the player's paused flag and playback rate
\* afterwards equal the paused flag and the playback rate the message denotes.
C35_PausedAndRateMatchRemote ==
  \A t \in Tabs : \A latency \in LatencyInputs :
    LET c == tabs[t]
    IN /\ \A event \in RemoteEvents :
            (PassesGate(c, event.isWatchingAd) /\ SentShape(event)) =>
              LET d == handleRemoteVideoEvent(c, event, event.timestamp + latency, TRUE)
              IN /\ DenotedPaused(event) # Absent => d.video.paused = DenotedPaused(event)[1]
                 /\ DenotedRate(event) # Absent => d.video.playbackRate = DenotedRate(event)[1]
       /\ \A state \in RemoteStates :
            PassesGate(c, state.isWatchingAd) =>
              LET d == applyVideoState(c, state, state.timestamp + latency, TRUE)
              IN d.video.paused = state.paused /\ d.video.playbackRate = state.playbackRate

\* the position a message denotes at the time it is applied: advanced by the
\* time the message was under way when it denotes a playing video
AdjustedTarget(currentTime, paused, latency) ==
  IF ~paused THEN currentTime + latency ELSE currentTime

\* C36: whenever an applied play, pause or seek event or an applied state moves
\* the player, it moves it (and lastSyncedTime) to currentTime + (now - timestamp)
\* when the message denotes a playing video and to currentTime when it denotes a
\* paused one.
C36_TargetIsLatencyAdjustedWhenPlaying ==
  \A t \in Tabs : \A latency \in LatencyInputs :
    LET c == tabs[t]
    IN /\ \A event \in RemoteEvents :
            (PassesGate(c, event.isWatchingAd) /\ SentShape(event)
              /\ event.eventType \in {"play", "pause", "seek"}) =>
              LET d == handleRemoteVideoEvent(c, event, event.timestamp + latency, TRUE)
                  target == AdjustedTarget(event.currentTime[1], DenotedPaused(event)[1], latency)
              IN d.video.currentTime # c.video.currentTime =>
                   d.video.currentTime = target /\ d.lastSyncedTime = target
       /\ \A state \in RemoteStates :
            PassesGate(c, state.isWatchingAd) =>
              LET d == applyVideoState(c, state, state.timestamp + latency, TRUE)
                  target == AdjustedTarget(state.currentTime, state.paused, latency)
              IN d.video.currentTime # c.video.currentTime =>
                   d.video.currentTime = target /\ d.lastSyncedTime = target

\* d results from c by the time correction policy for a message denoting
\* position currentTime: the player is moved to the adjusted target, and
\* lastSyncedTime with it, exactly when it is more than the threshold away from
\* it, and both are left alone otherwise
TimeCorrected(c, d, currentTime, paused, latency) ==
  LET target == AdjustedTarget(currentTime, paused, latency)
  IN IF OverThreshold(c.video.currentTime, target)
     THEN d.video.currentTime = target /\ d.lastSyncedTime = target
     ELSE d.video.currentTime = c.video.currentTime /\ d.lastSyncedTime = c.lastSyncedTime

\* C37: an applied play, pause or seek event or state sets the player's position
\* to the adjusted target and updates lastSyncedTime if and only if the local
\* position is more than 1.0 s away from the adjusted target; otherwise both are
\* unchanged.
C37_SeekIffOverThreshold ==
  \A t \in Tabs : \A latency \in LatencyInputs :
    LET c == tabs[t]
    IN /\ \A event \in RemoteEvents :
            (PassesGate(c, event.isWatchingAd) /\ SentShape(event)
              /\ event.eventType \in {"play", "pause", "seek"}) =>
              TimeCorrected(c, handleRemoteVideoEvent(c, event, event.timestamp + latency, TRUE),
                            event.currentTime[1], DenotedPaused(event)[1], latency)
       /\ \A state \in RemoteStates :
            PassesGate(c, state.isWatchingAd) =>
              TimeCorrected(c, applyVideoState(c, state, state.timestamp + latency, TRUE),
                            state.currentTime, state.paused, latency)

----------------------------------------------------------------------------
\* The connections of the background script.

\* the sockets of b that are connecting or open
LiveSockets(b) == { s \in DOMAIN b.sockets : b.sockets[s].readyState \in {"CONNECTING", "OPEN"} }

\* C39: at any time the client has at most one WebSocket that is open or
\* connecting, also when a reconnect timer scheduled before a leave fires after
\* the user has joined another room.
C39_AtMostOneLiveSocket == Cardinality(LiveSockets(bg)) <= 1

----------------------------------------------------------------------------
\* The background script and the server together: the background script's
\* one connection is the server's first session, a peer is the second.  The
\* user creates and joins rooms; nothing is closed.

\* The browser's tabs as the background script sees them through chrome.tabs.

\* tab.url of the user's tabs: the two pages a host may publish and a page
\* that is neither http nor https
TabUrlInputs == { <<"https:", "//a.example/v1">>, <<"http:", "//a.example/v2">>,
                  <<"chrome:", "//newtab">> }

\* hostUrl of ROOM_JOINED and url of HOST_URL_UPDATED
HostUrlInputs == { <<"https:", "//a.example/v1">>, <<"http:", "//a.example/v2">>,
                   <<"javascript:", "alert(1)">>, NoUrl }

\* url.startsWith('http://') || url.startsWith('https://')
startsWithHttp(url) == Len(url) = 2 /\ url[1] \in {"http:", "https:"}

RemoveAt(seq, i) == [j \in 1..(Len(seq) - 1) |-> IF j < i THEN seq[j] ELSE seq[j + 1]]

\* the lowest tab that is not open
FreeTab(b) == CHOOSE t \in BrowserTabs :
                /\ b.browserTabs[t] = NoUrl
                /\ \A u \in BrowserTabs : b.browserTabs[u] = NoUrl => t <= u

\* openHostUrl up to the call of chrome.tabs.query({}, ...)
openHostUrl(b, url) ==
  IF ~startsWithHttp(url) THEN b
  ELSE [b EXCEPT !.opening = Append(@, [url |-> url, stage |-> "tabs"])]

\* the callback of chrome.tabs.query({}) that goes on to the active tab
\* without looking for a tab that has the url
tabsQueried_NoLookup(b, i) == [b EXCEPT !.opening[i].stage = "active"]

\* openHostUrl: the callback of chrome.tabs.query({}) for the i-th call under way
tabsQueried(b, i) ==
  LET url      == b.opening[i].url
      existing == { t \in BrowserTabs : b.browserTabs[t] = url }
  IN IF existing # {}
     THEN [b EXCEPT !.activeTab = CHOOSE t \in existing : \A u \in existing : t <= u,
                    !.opening = RemoveAt(@, i)]
     ELSE [b EXCEPT !.opening[i].stage = "active"]

\* openHostUrl: the callback of chrome.tabs.query({active: true, lastFocusedWindow: true})
activeQueried(b, i) ==
  LET url == b.opening[i].url
  IN IF b.activeTab # NoBrowserTab /\ startsWithHttp(b.browserTabs[b.activeTab])
     THEN [b EXCEPT !.browserTabs[b.activeTab] = url, !.opening = RemoveAt(@, i)]
     ELSE [b EXCEPT !.browserTabs[FreeTab(b)] = url, !.activeTab = FreeTab(b),
                    !.opening = RemoveAt(@, i)]

\* handleSignalingMessage: case 'HOST_URL_UPDATED'
onHostUrlUpdated(b, url) ==
  IF b.currentRoom # NoRoom /\ ~b.isHost /\ url # NoUrl THEN openHostUrl(b, url) ELSE b

----------------------------------------------------------------------------

MaxWire == 2

HostSession == 1
PeerSession == 2

\* room ids the user types into the popup's join field
HostJoinRoomIds == { <<"G", "1">>, <<"r", "1">> }

\* the JOIN_ROOM message of connectToSignalingServer
JoinRoomMessage(roomId) ==
  [type |-> "JOIN_ROOM", roomId |-> roomId, userId |-> NoName, username |-> NoName,
   generated |-> "g1"]

\* connectToSignalingServer(roomId) finds the connection open and does not
\* skip the JOIN_ROOM as a duplicate
JoinSent(b, roomId) ==
  IsConnected(b) /\ ~(b.lastJoinedRoomId = roomId /\ b.currentRoom = roomId)

\* handleSignalingMessage: case 'ROOM_JOINED'.  sendCurrentUrlToServer, which a
\* host runs, changes nothing in the background script or the browser.
onRoomJoined(b, message) ==
  IF b.currentRoom = NoRoom THEN b
  ELSE IF ~message.isHost /\ message.hostUrl # NoUrl
       THEN openHostUrl([b EXCEPT !.isHost = message.isHost], message.hostUrl)
       ELSE [b EXCEPT !.isHost = message.isHost]

\* the ROOM_JOINED messages among out that go to the background script
RoomJoinedReplies(out) ==
  LET replies == SelectSeq(out, LAMBDA o : o.to = HostSession /\ o.msg.type = "ROOM_JOINED")
  IN [i \in 1..Len(replies) |-> replies[i].msg]

\* a popup request while there is no connection yet or the connection is open
HostRequest(b, roomId) ==
  /\ bg.sockets = << >> \/ IsConnected(bg)
  /\ Len(wire.toServer) < MaxWire
  /\ bg' = b
  /\ wire' = [wire EXCEPT !.toServer =
                IF JoinSent([bg EXCEPT !.currentRoom = roomId], roomId)
                THEN Append(@, JoinRoomMessage(roomId)) ELSE @]
  /\ UNCHANGED <<serverVars, contentVars>>

HostCreates(roomId) == HostRequest(backgroundCreateRoom(bg, roomId), roomId)

HostJoins(roomId) == HostRequest(backgroundJoinRoom(bg, roomId), toUpperCase(roomId))

\* the connection is established: wss.on('connection') and wsConnection.onopen
HostSocketOpens ==
  /\ bg.wsConnection = 1
  /\ bg.sockets[1].readyState = "CONNECTING"
  /\ readyState[HostSession] = "NEW"
  /\ bg' = onopen(bg, 1)
  /\ wire' = [wire EXCEPT !.toServer = Append(@, JoinRoomMessage(bg.sockets[1].roomId))]
  /\ readyState' = [readyState EXCEPT ![HostSession] = "OPEN"]
  /\ clients' = MapSet(clients, HostSession,
                  [roomId |-> NoRoom, userId |-> NoName, username |-> NoName, isHost |-> FALSE])
  /\ UNCHANGED <<rooms, roomUrls, lastUrl, contentVars>>

\* ws.on('message') for the oldest message of the background script
ServerHandles ==
  /\ wire.toServer # << >>
  /\ Len(wire.toClient) < MaxWire
  /\ LET st == handleMessage(ServerState, HostSession, Head(wire.toServer))
     IN /\ rooms' = st.rooms
        /\ clients' = st.clients
        /\ roomUrls' = st.roomUrls
        /\ wire' = [toServer |-> Tail(wire.toServer),
                    toClient |-> wire.toClient \o RoomJoinedReplies(st.out)]
  /\ UNCHANGED <<readyState, lastUrl, contentVars, bg>>

\* wsConnection.onmessage for the oldest message of the server
HostHandles ==
  /\ wire.toClient # << >>
  /\ bg' = onRoomJoined(bg, Head(wire.toClient))
  /\ wire' = [wire EXCEPT !.toClient = Tail(@)]
  /\ UNCHANGED <<serverVars, contentVars>>

\* what the peer sends
PeerMessages == { m \in Messages : m.type \in {"JOIN_ROOM", "LEAVE_ROOM"} }

NextHost ==
  \/ \E roomId \in GeneratedRoomIds : HostCreates(roomId)
  \/ \E roomId \in HostJoinRoomIds : HostJoins(roomId)
  \/ HostSocketOpens
  \/ ServerHandles
  \/ HostHandles
  \/ Connect(PeerSession)
  \/ \E message \in PeerMessages : Receive(PeerSession, message)

SpecHost == Init /\ [][NextHost]_vars

\* the background script has an open connection, is in a room, and no
\* JOIN_ROOM or ROOM_JOINED is on its way
HostSettled ==
  /\ IsConnected(bg)
  /\ bg.currentRoom # NoRoom
  /\ wire.toServer = << >>
  /\ wire.toClient = << >>

\* C38: whenever the client has an open connection, is in a room and has no
\* JOIN_ROOM or ROOM_JOINED in flight, its currentRoom.isHost equals the isHost
\* the server holds for its session.
C38_LocalHostFlagMatchesServer ==
  HostSettled => bg.isHost = clients[HostSession].isHost

----------------------------------------------------------------------------
\* The background script of a client in a room, its browser's tabs, the user
\* who opens, closes and selects tabs, and the host URLs the server sends.

BrowserStep(b) ==
  /\ Len(b.opening) <= MaxOpening
  /\ BackgroundStep(b)

\* the user opens a tab, which becomes the active one
UserOpensTab(url) ==
  /\ \E t \in BrowserTabs : bg.browserTabs[t] = NoUrl
  /\ BrowserStep([bg EXCEPT !.browserTabs[FreeTab(bg)] = url, !.activeTab = FreeTab(bg)])

\* the user closes a tab; another open tab, if any, becomes the active one
UserClosesTab(t) ==
  /\ bg.browserTabs[t] # NoUrl
  /\ \E next \in BrowserTabs \cup {NoBrowserTab} :
       /\ next # t
       /\ IF \E u \in BrowserTabs \ {t} : bg.browserTabs[u] # NoUrl
          THEN next # NoBrowserTab /\ bg.browserTabs[next] # NoUrl
          ELSE next = NoBrowserTab
       /\ BrowserStep([bg EXCEPT !.browserTabs[t] = NoUrl,
                                 !.activeTab = IF bg.activeTab = t THEN next ELSE @])

UserSelectsTab(t) ==
  /\ bg.browserTabs[t] # NoUrl
  /\ bg.activeTab # t
  /\ BrowserStep([bg EXCEPT !.activeTab = t])

\* the user creates or joins a room from the popup
BrowserCreates(roomId) ==
  /\ bg.currentRoom = NoRoom
  /\ bg.sockets = << >>
  /\ CreateRoom(roomId)

BrowserJoins(roomId) ==
  /\ bg.currentRoom = NoRoom
  /\ bg.sockets = << >>
  /\ JoinRoom(roomId)

\* ROOM_JOINED arrives on the open connection
RoomJoinedArrives(isHost, hostUrl) ==
  /\ IsConnected(bg)
  /\ BrowserStep(onRoomJoined(bg, [type |-> "ROOM_JOINED", isHost |-> isHost, hostUrl |-> hostUrl]))

\* HOST_URL_UPDATED arrives on the open connection
HostUrlUpdatedArrives(url) ==
  /\ IsConnected(bg)
  /\ BrowserStep(onHostUrlUpdated(bg, url))

TabsQueried(i) ==
  /\ bg.opening[i].stage = "tabs"
  /\ BrowserStep(tabsQueried(bg, i))

ActiveQueried(i) ==
  /\ bg.opening[i].stage = "active"
  /\ \/ bg.activeTab # NoBrowserTab /\ startsWithHttp(bg.browserTabs[bg.activeTab])
     \/ \E t \in BrowserTabs : bg.browserTabs[t] = NoUrl
  /\ BrowserStep(activeQueried(bg, i))

NextBrowser ==
  \/ \E url \in TabUrlInputs : UserOpensTab(url)
  \/ \E t \in BrowserTabs : UserClosesTab(t)
  \/ \E t \in BrowserTabs : UserSelectsTab(t)
  \/ \E roomId \in GeneratedRoomIds : BrowserCreates(roomId)
  \/ \E roomId \in JoinRoomIds : BrowserJoins(roomId)
  \/ \E s \in DOMAIN bg.sockets : SocketOpens(s)
  \/ \E isHost \in BOOLEAN : \E hostUrl \in HostUrlInputs : RoomJoinedArrives(isHost, hostUrl)
  \/ \E url \in HostUrlInputs : HostUrlUpdatedArrives(url)
  \/ \E i \in DOMAIN bg.opening : TabsQueried(i)
  \/ \E i \in DOMAIN bg.opening : ActiveQueried(i)

SpecBrowser == Init /\ [][NextBrowser]_vars

\* the open tabs of b whose url is url
TabsWithUrl(b, url) == { t \in BrowserTabs : b.browserTabs[t] = url }

\* d is b with only the host's url looked up: no tab navigated, created or closed
NoNavigation(b, d) == d.browserTabs = b.browserTabs

\* C40: a non-host client that receives, in ROOM_JOINED or HOST_URL_UPDATED, a
\* host url identical to the url of a tab it has open navigates no tab and
\* creates none: it only makes that tab the active one and is done with the
\* url.  A host changes nothing on HOST_URL_UPDATED.
C40_OpenHostUrlDeduplicates ==
  /\ \A url \in HostUrlInputs : \A hostFlag \in BOOLEAN :
       LET received == { onHostUrlUpdated(bg, url),
                         onRoomJoined(bg, [type |-> "ROOM_JOINED", isHost |-> hostFlag,
                                           hostUrl |-> url]) }
       IN \A d \in received :
            /\ NoNavigation(bg, d)
            /\ d.activeTab = bg.activeTab
            /\ Len(d.opening) > Len(bg.opening) =>
                 /\ ~d.isHost
                 /\ d.opening = Append(bg.opening, [url |-> url, stage |-> "tabs"])
  /\ \A i \in DOMAIN bg.opening :
       (bg.opening[i].stage = "tabs" /\ TabsWithUrl(bg, bg.opening[i].url) # {}) =>
         LET d == tabsQueried(bg, i)
         IN /\ NoNavigation(bg, d)
            /\ d.activeTab \in TabsWithUrl(bg, bg.opening[i].url)
            /\ d.opening = RemoveAt(bg.opening, i)
  /\ (bg.currentRoom # NoRoom /\ bg.isHost) =>
       \A url \in HostUrlInputs : onHostUrlUpdated(bg, url) = bg

\* C40 witness: a non-host client in a room is looking up a host url that one
\* of its tabs, not the active one, has open
C40_Witness ==
  /\ bg.currentRoom # NoRoom
  /\ ~bg.isHost
  /\ \E i \in DOMAIN bg.opening :
       /\ bg.opening[i].stage = "tabs"
       /\ TabsWithUrl(bg, bg.opening[i].url) # {}
       /\ bg.activeTab \notin TabsWithUrl(bg, bg.opening[i].url)

====
